---- MODULE Spec2Model ----
(***************************************************************************)
(* Verification model of the eunoia3 mood logger: the score model          *)
(* (calculateOverallScores, calculateMoodFromOverallScores), the entry     *)
(* store (src/lib/storage.ts over localStorage and Firestore), the Home    *)
(* page state (src/app/page.tsx) and the Google Sheets exporter            *)
(* (src/actions/export-to-google-sheets.ts).                               *)
(*                                                                         *)
(* Numbers are JavaScript doubles in the source.  The model keeps them as  *)
(* integers in units of 1/1000, and only uses values that are multiples of *)
(* 1/8 (125 units) or of 1/100 (10 units), for which the doubles and the   *)
(* sums the code forms are exact.  JSON values that are not numbers are    *)
(* tagged cells.                                                           *)
(***************************************************************************)
EXTENDS Integers, Sequences, FiniteSets, TLC

VARIABLES
    fnName, fnArg, fnRet,           \* the last call of a pure function
    localBlob,                      \* the localStorage item 'moodLoggerData'
    remoteConfigured,               \* NEXT_PUBLIC_FIREBASE_PROJECT_ID && db
    remoteDocs,                     \* the Firestore collection, by document id
    storeOps,                       \* number of store calls made
    lastOp, lastSaved, saveOutcome, \* the last store call and its argument
    saveReturn,                     \* how the promise of the last saveDailyEntry settled
    gotDate, got,                   \* the last getDailyEntry and its result
    gotAll,                         \* the result of the last getAllEntries
    isClient, authLoading,          \* Home: React state of src/app/page.tsx
    selectedDate, dailyEntry, calculatedMood, isLoadingEntry,
    pendingLoads,                   \* dates whose getDailyEntry promise is pending
    homeSteps,                      \* number of user events handled
    sheet,                          \* the rows of the Google Sheet tab, row 1 first
    xpc,                            \* exportToGoogleSheets: the call it is awaiting
    exportData,                     \* input.data of the running or last export
    rowsToUpdate, rowsToAppend,     \* its locals that live across awaits
    rowsUpdatedCount, rowsAppendedCount,
    exportResult,                   \* the ExportResult it returned
    sheet0,                         \* the sheet when the export was called
    writeCalls,                     \* the write calls it has issued
    prevExport,                     \* data and success of the export before it
    exportConfig,                   \* the environment variables of the exporter
    lastCall,                       \* the last Sheets API call of the export and its outcome
    dataRows,                       \* the rows of the local collection
    analysisIsClient,               \* MoodAnalysis: React state isClient
    apc,                            \* handleAnalyzeMoods: the call it is awaiting
    isAnalyzing, analysisError, analysisResult,
    allEntries,                     \* what its getAllEntries call returned
    aiCalls,                        \* calls of analyzeMoodPatterns it has made
    analyses                        \* number of clicks on the analyze button

pureVars == <<fnName, fnArg, fnRet>>

storeVars == <<localBlob, remoteConfigured, remoteDocs>>

storeCallVars ==
    <<storeOps, lastOp, lastSaved, saveOutcome, saveReturn, gotDate, got, gotAll>>

homeVars ==
    <<isClient, authLoading, selectedDate, dailyEntry, calculatedMood, isLoadingEntry,
      pendingLoads, homeSteps>>

exportVars ==
    <<sheet, xpc, exportData, rowsToUpdate, rowsToAppend, rowsUpdatedCount,
      rowsAppendedCount, exportResult, sheet0, writeCalls, prevExport, exportConfig,
      dataRows, lastCall>>

analysisVars ==
    <<analysisIsClient, apc, isAnalyzing, analysisError, analysisResult, allEntries, aiCalls,
      analyses>>

vars == <<pureVars, storeVars, storeCallVars, homeVars, exportVars, analysisVars>>

----------------------------------------------------------------------------
(* JSON cells *)

Num(n) == [t |-> "number", v |-> n]
Null == [t |-> "null", v |-> 0]
Undefined == [t |-> "undefined", v |-> 0]
IsNum(c) == c.t = "number"

(* a ?? b on a cell that may be absent (undefined) or null *)
Coalesce(present, c, dflt) == IF present /\ c.t # "null" THEN c ELSE dflt

----------------------------------------------------------------------------
(* Score model *)

themeOrder ==
    <<"dreaming", "moodScore", "training", "diet",
      "socialRelations", "familyRelations", "selfEducation">>

Themes == {themeOrder[k] : k \in 1..Len(themeOrder)}

NumQuestions == 8

Slots == 0..(NumQuestions - 1)

Negative == -250
Neutral == 0
Positive == 250

LegalAnswers == {Negative, Neutral, Positive}

RECURSIVE SumUntilMissing(_, _)
(* a loop that stops at the first slot that is not there *)
SumUntilMissing(q, n) ==
    IF n = 0 THEN 0
    ELSE IF \E i \in 0..(n - 1) : i \notin DOMAIN q
         THEN SumUntilMissing(q, n - 1)
         ELSE SumUntilMissing(q, n - 1) + Coalesce(TRUE, q[n - 1], Num(0)).v

RECURSIVE SumUpTo(_, _)
(* for (let i = 0; i < n; i++) sum += themeQuestions[i] ?? 0 *)
SumUpTo(q, n) ==
    IF n = 0 THEN 0
    ELSE SumUpTo(q, n - 1) + Coalesce((n - 1) \in DOMAIN q, q[n - 1], Num(0)).v

(* Number.prototype.toFixed(2) followed by parseFloat, on an exact value:  *)
(* the nearest multiple of 0.01, a tie going away from zero                *)
ToFixed2(x) ==
    LET a == IF x < 0 THEN -x ELSE x
        r == ((a + 5) \div 10) * 10
    IN IF x < 0 THEN -r ELSE r

Max(a, b) == IF a >= b THEN a ELSE b
Min(a, b) == IF a <= b THEN a ELSE b

MinTotal == -2000
MaxTotal == 2000

(* a loop over 7 of the 8 questions *)
ThemeTotalSevenSlots(detailedScores, theme) ==
    LET sum == IF theme \in DOMAIN detailedScores
               THEN SumUpTo(detailedScores[theme], NumQuestions - 1)
               ELSE 0
    IN Max(MinTotal, Min(MaxTotal, ToFixed2(sum)))

(* the body of themeOrder.forEach in calculateOverallScores *)
ThemeTotal(detailedScores, theme) ==
    LET sum == IF theme \in DOMAIN detailedScores
               THEN SumUpTo(detailedScores[theme], NumQuestions)
               ELSE 0
    IN Max(MinTotal, Min(MaxTotal, ToFixed2(sum)))

calculateOverallScores(detailedScores) ==
    [theme \in Themes |-> Num(ThemeTotal(detailedScores, theme))]

RECURSIVE SumKeys(_, _)
(* themeKeys.reduce((acc, key) => acc + (scores[key] ?? 0), 0) *)
SumKeys(scores, keys) ==
    IF keys = {} THEN 0
    ELSE LET k == CHOOSE x \in keys : TRUE
         IN Coalesce(TRUE, scores[k], Num(0)).v + SumKeys(scores, keys \ {k})

badThreshold == -750
goodThreshold == 750

(* average = sum / count compared with the thresholds; for count > 0 the   *)
(* comparison average <= t is sum <= t * count, and the quotient of the    *)
(* doubles is exact at the two thresholds                                  *)
calculateMoodFromOverallScores(scores) ==
    LET themeKeys == DOMAIN scores
        sum == SumKeys(scores, themeKeys)
        count == Cardinality(themeKeys)
        bad == IF count > 0 THEN sum <= badThreshold * count ELSE 0 <= badThreshold
        good == IF count > 0 THEN sum >= goodThreshold * count ELSE 0 >= goodThreshold
    IN IF bad THEN [label |-> "Bad", totalScore |-> ToFixed2(sum)]
       ELSE IF good THEN [label |-> "Good", totalScore |-> ToFixed2(sum)]
       ELSE [label |-> "Normal", totalScore |-> ToFixed2(sum)]

----------------------------------------------------------------------------
(* Inputs of the score model *)

(* slot values a stored or passed detailedScores can hold: the legal       *)
(* answers, numbers outside the legal set, and null                        *)
IllegalNumbers == {-3000, -1000, -125, 125, 1000, 3000}
SlotCells == {Num(n) : n \in LegalAnswers \cup IllegalNumbers} \cup {Null}

(* a theme's slot map over the slots present, filled with at most three    *)
(* distinct values in runs                                                 *)
SlotMap(present, n1, n2, a, b, c) ==
    [i \in present |-> IF i < n1 THEN a ELSE IF i < n2 THEN b ELSE c]

PresentSets == {Slots, {}, 0..3, {1, 3, 5, 7}, Slots \ {0}}

SlotMaps ==
    {SlotMap(p, n1, n2, a, b, c) :
        p \in PresentSets, n1 \in {0, 1, 3, 4, 8}, n2 \in {4, 5, 8},
        a \in SlotCells, b \in SlotCells, c \in {Num(0), Num(250)}}

LegalSlotMaps ==
    {SlotMap(Slots, n1, n2, Num(Negative), Num(Neutral), Num(Positive)) :
        n1 \in 0..NumQuestions, n2 \in 0..NumQuestions}

(* detailedScores inputs: the themes of dom hold the slot map q, except    *)
(* that every theme but the first of themeOrder holds q2 when both differ  *)
DetailedOf(dom, theme, q, q2) ==
    [t \in dom |-> IF t = theme THEN q ELSE q2]

ThemeDomains(theme) == {{}, {theme}, Themes, Themes \ {theme}}

(* scores objects handed to calculateMoodFromOverallScores: the 7 theme    *)
(* keys, the 5 keys of the first releases, an object with a further key,   *)
(* and the empty object                                                    *)
LegacyThemes == {"dreaming", "training", "diet", "socialRelations", "selfEducation"}
ExtraKey == "notes"
ScoreKeySets == {Themes, LegacyThemes, Themes \cup {ExtraKey}, {}}

Totals == {n * Positive : n \in -8..8}

ScoresOf(keys, first, a, b) ==
    [k \in keys |-> IF k \in first THEN a ELSE b]

KeyPrefixes ==
    {{}, {"dreaming"}, {"dreaming", "moodScore"}, {"dreaming", "moodScore", "training"},
     {"dreaming", "moodScore", "training", "diet"}, LegacyThemes, Themes}

----------------------------------------------------------------------------------------------------------------------------------------
(* Entry store: src/lib/storage.ts over localStorage and Firestore *)

(* { ...f, ...g } *)
Spread(f, g) == [k \in DOMAIN f \cup DOMAIN g |-> IF k \in DOMAIN g THEN g[k] ELSE f[k]]

EmptyObject == [k \in {} |-> Null]

(* Variant: the loop stops one slot early. *)
createDefaultDetailedScoresSevenSlots ==
    [theme \in Themes |-> [i \in Slots \ {NumQuestions - 1} |-> Num(0)]]

createDefaultDetailedScores ==
    [theme \in Themes |-> [i \in Slots |-> Num(0)]]

createDefaultThemeScores ==
    [theme \in Themes |-> Num(0)]

(* schema completion that also derives scores from the completed answers *)
validateAndCompleteEntryRecomputing(entry, date) ==
    LET given == IF "detailedScores" \in DOMAIN entry THEN entry.detailedScores ELSE EmptyObject
        detailedScores ==
            [t \in Themes \cup DOMAIN given |->
                IF t \in Themes
                THEN Spread(createDefaultDetailedScores[t],
                            IF t \in DOMAIN given THEN given[t] ELSE EmptyObject)
                ELSE given[t]]
    IN [date |-> IF "date" \in DOMAIN entry /\ entry.date # "" THEN entry.date ELSE date,
        mood |-> IF "mood" \in DOMAIN entry THEN entry.mood ELSE "null",
        scores |-> calculateOverallScores(detailedScores),
        detailedScores |-> detailedScores]

validateAndCompleteEntry(entry, date) ==
    LET given == IF "detailedScores" \in DOMAIN entry THEN entry.detailedScores ELSE EmptyObject
        detailedScores ==
            [t \in Themes \cup DOMAIN given |->
                IF t \in Themes
                THEN Spread(createDefaultDetailedScores[t],
                            IF t \in DOMAIN given THEN given[t] ELSE EmptyObject)
                ELSE given[t]]
        scores == Spread(createDefaultThemeScores,
                         IF "scores" \in DOMAIN entry THEN entry.scores ELSE EmptyObject)
    IN [date |-> IF "date" \in DOMAIN entry /\ entry.date # "" THEN entry.date ELSE date,
        mood |-> IF "mood" \in DOMAIN entry THEN entry.mood ELSE "null",
        scores |-> scores,
        detailedScores |-> detailedScores]

(* the localStorage item: absent, a text JSON.parse rejects, the JSON text *)
(* null, or the JSON text of a collection                                  *)
BlobAbsent == [kind |-> "absent"]
BlobCorrupt == [kind |-> "corrupt"]
BlobNull == [kind |-> "null"]
BlobOf(data) == [kind |-> "data", data |-> data]

(* rawData ? JSON.parse(rawData) : {}, and {} when JSON.parse throws *)
getLocalStoredData ==
    IF localBlob.kind = "data" THEN localBlob.data
    ELSE IF localBlob.kind = "null" THEN Null
    ELSE EmptyObject

(* How a promise settles: fulfilled with a value, or rejected with the     *)
(* exception thrown inside the async function.                             *)
Fulfilled(value) == [settled |-> "fulfilled", value |-> value]
Rejected == [settled |-> "rejected", value |-> [t |-> "TypeError", v |-> 0]]

(* localData[date] on the parsed value null throws a TypeError *)
LocalAccessThrows == getLocalStoredData = Null

(* localStorage.setItem(LOCAL_STORAGE_KEY, JSON.stringify(data)), which    *)
(* may throw (quota); the exception is caught and logged                   *)
saveLocalStoredData(data, ok) ==
    IF ok THEN BlobOf(data) ELSE localBlob

(* getEntryFromFirestore: the document, or null when there is none or the  *)
(* read fails                                                              *)
getEntryFromFirestore(date, readOk) ==
    IF readOk /\ date \in DOMAIN remoteDocs THEN remoteDocs[date] ELSE Null

(* a read that prefers the local record *)
getDailyEntryLocalFirst(date, readOk) ==
    LET localData == getLocalStoredData
        firestoreEntry == IF remoteConfigured THEN getEntryFromFirestore(date, readOk) ELSE Null
    IN IF LocalAccessThrows
       THEN Rejected
       ELSE IF date \in DOMAIN localData
       THEN validateAndCompleteEntry(localData[date], date)
       ELSE IF firestoreEntry # Null
       THEN validateAndCompleteEntry(firestoreEntry, date)
       ELSE validateAndCompleteEntry([date |-> date], date)

getDailyEntry(date, readOk) ==
    LET firestoreEntry == IF remoteConfigured THEN getEntryFromFirestore(date, readOk) ELSE Null
        localData == getLocalStoredData
    IN IF firestoreEntry # Null
       THEN validateAndCompleteEntry(firestoreEntry, date)
       ELSE IF LocalAccessThrows
       THEN Rejected
       ELSE IF date \in DOMAIN localData
       THEN validateAndCompleteEntry(localData[date], date)
       ELSE validateAndCompleteEntry([date |-> date], date)

(* getAllEntriesFromFirestore: the documents by id, {} when the read fails *)
getAllEntriesFromFirestore(readOk) ==
    IF readOk THEN remoteDocs ELSE EmptyObject

(* getAllEntries: every record of the backend asked, completed; for..in    *)
(* over the parsed value null visits nothing                               *)
getAllEntries(readOk) ==
    LET source == IF remoteConfigured THEN getAllEntriesFromFirestore(readOk)
                  ELSE IF LocalAccessThrows THEN EmptyObject
                  ELSE getLocalStoredData
    IN [date \in DOMAIN source |-> validateAndCompleteEntry(source[date], date)]

(* Variant: the item is written with the saved entry alone. *)
SavedLocalEntryAlone(entry, localOk) ==
    LET completeEntry == validateAndCompleteEntry(entry, entry.date)
    IN IF LocalAccessThrows THEN localBlob
       ELSE saveLocalStoredData([k \in {entry.date} |-> completeEntry], localOk)

(* the state of the two backends after saveDailyEntry(entry), for the      *)
(* outcomes of localStorage.setItem and of setDoc                          *)
SavedLocal(entry, localOk) ==
    LET completeEntry == validateAndCompleteEntry(entry, entry.date)
        localData == getLocalStoredData
    IN IF LocalAccessThrows THEN localBlob
       ELSE saveLocalStoredData(Spread(localData, [k \in {entry.date} |-> completeEntry]),
                                localOk)

(* the remote write comes after the local one and is not reached when the  *)
(* local one throws                                                        *)
SavedRemote(entry, remoteOk) ==
    LET completeEntry == validateAndCompleteEntry(entry, entry.date)
    IN IF ~LocalAccessThrows /\ remoteConfigured /\ remoteOk /\ completeEntry.date # ""
       THEN Spread(remoteDocs, [k \in {completeEntry.date} |-> completeEntry])
       ELSE remoteDocs

----------------------------------------------------------------------------
(* Stored collections and entries used as inputs *)

Dates == {"2024-01-01", "2024-01-02"}
FirstDate == "2024-01-01"

AnswersWith(theme, slot, answer) ==
    [createDefaultDetailedScores EXCEPT ![theme][slot] = Num(answer)]

Entry(date, mood, detailedScores, scores) ==
    [date |-> date, mood |-> mood, scores |-> scores, detailedScores |-> detailedScores]

(* an entry as the page holds it after an answer was given *)
AnsweredEntry(date, answer) ==
    Entry(date, "null", AnswersWith("dreaming", 0, answer),
          calculateOverallScores(AnswersWith("dreaming", 0, answer)))

(* an entry whose scores were not refreshed after the answer changed *)
StaleEntry(date, answer) ==
    Entry(date, "null", AnswersWith("dreaming", 0, answer), createDefaultThemeScores)

(* a record written before detailedScores existed: date, mood and the 7    *)
(* slider scores                                                           *)
LegacyRecord(date) ==
    [date |-> date, mood |-> "happy",
     scores |-> [createDefaultThemeScores EXCEPT !["dreaming"] = Num(1000)]]

(* a complete record in which two slots hold values that are not answers:  *)
(* the number 1 and null                                                   *)
OutOfRangeRecord(date) ==
    LET ds == [createDefaultDetailedScores EXCEPT
                  !["dreaming"][0] = Num(1000), !["dreaming"][1] = Null]
    IN Entry(date, "null", ds, calculateOverallScores(ds))

(* a record with one theme, one slot, and neither scores nor mood *)
PartialRecord(date) ==
    [date |-> date,
     detailedScores |-> [t \in {"diet"} |-> [i \in {2} |-> Num(Negative)]]]

StoredRecords(date) ==
    IF date = FirstDate
    THEN {LegacyRecord(date), PartialRecord(date), AnsweredEntry(date, Negative),
          OutOfRangeRecord(date)}
    ELSE {AnsweredEntry(date, Positive)}

Collections ==
    UNION {{[d \in D |-> r[d]] : r \in [D -> UNION {StoredRecords(d) : d \in D}]} : D \in SUBSET Dates}

StoredCollections ==
    {c \in Collections : \A d \in DOMAIN c : c[d] \in StoredRecords(d)}

(* raw records handed to validateAndCompleteEntry: each of date, mood,      *)
(* scores and detailedScores present or missing, detailedScores with       *)
(* themes and slots missing or holding values that are not legal answers   *)
Field(present, name, value) ==
    IF present THEN [k \in {name} |-> value] ELSE EmptyObject

RawDetailedScores ==
    {EmptyObject,
     [t \in {"diet"} |-> [i \in {2} |-> Num(Negative)]],
     AnswersWith("dreaming", 0, Positive),
     [t \in {"dreaming", "diet"} |-> SlotMap(0..5, 1, 3, Num(1000), Null, Num(Positive))]}

RawScores ==
    {EmptyObject, [t \in {"dreaming"} |-> Num(1000)], createDefaultThemeScores}

RawRecords ==
    {Spread(Spread(Field(hasDate, "date", FirstDate), Field(hasMood, "mood", "happy")),
            Spread(Field(hasScores, "scores", sc), Field(hasDetailed, "detailedScores", ds))) :
        hasDate \in BOOLEAN, hasMood \in BOOLEAN, hasScores \in BOOLEAN,
        hasDetailed \in BOOLEAN, sc \in RawScores, ds \in RawDetailedScores}

SaveInputs ==
    {AnsweredEntry(FirstDate, Positive), StaleEntry(FirstDate, Positive),
     OutOfRangeRecord(FirstDate)}

MaxStoreOps == 3

----------------------------------------------------------------------------
(* The exporter: src/actions/export-to-google-sheets.ts over one tab of a  *)
(* Google Sheet.  The sheet is the sequence of its rows; a row is the      *)
(* sequence of its cells; a tab with no cell at all is the empty sequence. *)

(* SHEET_HEADERS: 'Date' and the label of each theme in themeOrder. *)
SHEET_HEADERS ==
    <<"Date", "Dreaming / Sleep Quality", "Mood Quality / Stability",
      "Training / Exercise", "Diet / Nutrition", "Social Relations",
      "Family Relations", "Self Education / Learning">>

(* headerResponse.data.values?.[0] || [] for range A1:Z1 *)
HeaderRow(sh) == IF Len(sh) = 0 THEN <<>> ELSE sh[1]

(* dateValuesResponse.data.values for range A2:A, one cell per data row *)
DateColumn(sh) == [i \in 1..(IF Len(sh) = 0 THEN 0 ELSE Len(sh) - 1) |-> sh[i + 1][1]]

(* cells for which row[0] && String(row[0]).trim() !== "" is false *)
BlankCells == {"", " "}

(* Variant: the first cell that holds a date keeps it. *)
RECURSIVE existingDatesMapFirstHit(_, _)
existingDatesMapFirstHit(col, n) ==
    IF n = 0 THEN [d \in {} |-> 0]
    ELSE LET m == existingDatesMapFirstHit(col, n - 1)
         IN IF col[n] \in BlankCells \/ col[n] \in DOMAIN m THEN m
            ELSE Spread(m, [d \in {col[n]} |-> n + 1])

(* Variant: the header row is not counted in the row number. *)
RECURSIVE existingDatesMapFromRowOne(_, _)
existingDatesMapFromRowOne(col, n) ==
    IF n = 0 THEN [d \in {} |-> 0]
    ELSE LET m == existingDatesMapFromRowOne(col, n - 1)
         IN IF col[n] \in BlankCells THEN m
            ELSE Spread(m, [d \in {col[n]} |-> n])

(* existingDatesMap after the forEach over the first n cells of the column: *)
(* Map.set keeps the row of the last cell that holds the date.              *)
RECURSIVE existingDatesMap(_, _)
existingDatesMap(col, n) ==
    IF n = 0 THEN [d \in {} |-> 0]
    ELSE LET m == existingDatesMap(col, n - 1)
         IN IF col[n] \in BlankCells THEN m
            ELSE Spread(m, [d \in {col[n]} |-> n + 1])

(* Variant: only the first column is compared. *)
headersMatchFirstColumn(existingHeaders, headers) == existingHeaders[1] = headers[1]

(* JSON.stringify(existingHeaders) === JSON.stringify(headers) *)
headersMatch(existingHeaders, headers) == existingHeaders = headers

(* data.forEach: the rows whose date is in the map, as ValueRange objects *)
(* (range A<rowIndex>:<end column><rowIndex>, values [rowData]), in order. *)
PartitionUpdates(data, map, headers) ==
    LET hit == SelectSeq(data, LAMBDA rowData : rowData[1] \in DOMAIN map)
    IN [i \in 1..Len(hit) |->
          [rowIndex |-> map[hit[i][1]], width |-> Len(headers), values |-> hit[i]]]

(* Variant: every row is taken as new. *)
PartitionAppendsAll(data, map) == data

(* data.forEach: the rows whose date is not in the map, in order. *)
PartitionAppends(data, map) ==
    SelectSeq(data, LAMBDA rowData : rowData[1] \notin DOMAIN map)

(* Variant: the header row is added after the last row. *)
SheetWithHeadersAfterLast(sh, headers) == sh \o <<headers>>

(* values.update at A1 with values [headers] *)
SheetWithHeaders(sh, headers) ==
    IF Len(sh) = 0 THEN <<headers>> ELSE [sh EXCEPT ![1] = headers]

(* values.batchUpdate: the first n ranges written in order, each range one *)
(* row of the sheet, the cells A..<end column> replaced by the values; a   *)
(* values row shorter than the range leaves the remaining cells alone.     *)
RECURSIVE SheetWithUpdates(_, _, _)
SheetWithUpdates(sh, ranges, n) ==
    IF n = 0 THEN sh
    ELSE LET before == SheetWithUpdates(sh, ranges, n - 1)
             old == before[ranges[n].rowIndex]
             w == Min(ranges[n].width, Len(ranges[n].values))
         IN [before EXCEPT ![ranges[n].rowIndex] =
                 [c \in 1..Max(Len(old), w) |->
                     IF c <= w THEN ranges[n].values[c] ELSE old[c]]]

(* Variant: the rows are written over the last rows of the table. *)
SheetWithAppendedOverLast(sh, rows) ==
    SubSeq(sh, 1, Max(1, Len(sh) - Len(rows))) \o rows

(* values.append with INSERT_ROWS on range A:A: the rows are added after   *)
(* the last row of the table.                                              *)
SheetWithAppended(sh, rows) == sh \o rows

(* a cell that is neither a string, a number nor null: here undefined in   *)
(* the date column                                                         *)
UndefinedCell == "undefined"

(* ExportInputSchema.safeParse(input).success: headers is an array of      *)
(* strings, data an array of arrays whose cells are strings, numbers or    *)
(* null.  The cells after the date column are numbers in every input here, *)
(* so the date column decides.                                             *)
ExportInputSchema(input) ==
    \A i \in 1..Len(input.data) :
        Len(input.data[i]) > 0 => input.data[i][1] # UndefinedCell

(* The ExportResult objects the function returns. *)
ExportFailure(error) == [success |-> FALSE, error |-> error]

ExportSuccess(appended, updated, message) ==
    [success |-> TRUE, rowsAppended |-> appended, rowsUpdated |-> updated,
     message |-> message]

(* summaryMessage *)
summaryMessage(data, toUpdate, toAppend, updatedCount, appendedCount) ==
    IF updatedCount > 0 \/ appendedCount > 0 THEN "counts"
    ELSE IF Len(data) > 0 /\ Len(toAppend) = 0 /\ Len(toUpdate) = 0
         THEN "Dane z aplikacji sa juz aktualne w arkuszu."
    ELSE IF Len(data) = 0 THEN "Brak danych do wyslania."
    ELSE "Nie wprowadzono zadnych zmian w arkuszu."

(* Inputs of the exporter *)

MaxLocalRows == 2
MaxRemoteRows == 2

Row(date, total) == <<date, total, 0, 0, 0, 0, 0, 0>>

LocalDates == {"2024-01-02", "2024-01-03"}
RemoteDates == {"2024-01-01", "2024-01-02", ""}

LocalRows == {Row(d, t) : d \in LocalDates, t \in {Neutral, Positive}}
RemoteRows == {Row(d, Neutral) : d \in RemoteDates}

SeqsUpTo(S, n) == UNION {[1..k -> S] : k \in 0..n}

ExportInputs == SeqsUpTo(LocalRows, MaxLocalRows)

(* a row with fewer cells than there are headers *)
ShortRow(date) == <<date, Positive>>

MalformedInputs ==
    {<<ShortRow("2024-01-02")>>, <<Row("2024-01-03", Neutral), ShortRow("2024-01-02")>>}

InvalidInputs == {<<Row(UndefinedCell, Neutral)>>}

WrongHeaders == <<"Date", "Foo">>
ReorderedHeaders == [SHEET_HEADERS EXCEPT ![2] = SHEET_HEADERS[3], ![3] = SHEET_HEADERS[2]]

InitialSheets ==
    {<<>>}
    \cup {<<h>> \o rows : h \in {SHEET_HEADERS, WrongHeaders, ReorderedHeaders},
                          rows \in SeqsUpTo(RemoteRows, MaxRemoteRows)}
    \cup {<< <<>> >> \o rows : rows \in SeqsUpTo(RemoteRows, MaxRemoteRows) \ {<<>>}}

----------------------------------------------------------------------------
(* Initial states *)

NoCall == [name |-> "none"]

InitPure ==
    /\ fnName = "none"
    /\ fnArg = NoCall
    /\ fnRet = NoCall

InitStoreEmpty ==
    /\ localBlob = BlobAbsent
    /\ remoteConfigured = FALSE
    /\ remoteDocs = EmptyObject

InitStore ==
    /\ localBlob \in {BlobAbsent, BlobCorrupt, BlobNull} \cup {BlobOf(c) : c \in StoredCollections}
    /\ remoteConfigured \in BOOLEAN
    /\ remoteDocs \in IF remoteConfigured THEN StoredCollections ELSE {EmptyObject}

InitStoreCalls ==
    /\ storeOps = 0
    /\ lastOp = "none"
    /\ lastSaved = NoCall
    /\ saveOutcome = NoCall
    /\ saveReturn = NoCall
    /\ gotDate = "none"
    /\ got = NoCall
    /\ gotAll = EmptyObject

NoExport == [success |-> FALSE, error |-> "none"]

NoApiCall == [step |-> "none", outcome |-> "none"]

ApiCall(step, outcome) == [step |-> step, outcome |-> outcome]

InitExportCall ==
    /\ xpc = "done"
    /\ lastCall = NoApiCall
    /\ exportData = <<>>
    /\ rowsToUpdate = <<>>
    /\ rowsToAppend = <<>>
    /\ rowsUpdatedCount = 0
    /\ rowsAppendedCount = 0
    /\ exportResult = NoExport
    /\ sheet0 = sheet
    /\ writeCalls = <<>>
    /\ prevExport = [called |-> FALSE, data |-> <<>>, success |-> FALSE]

InitExportIdle ==
    /\ sheet = <<>>
    /\ exportConfig = "ok"
    /\ dataRows = <<>>
    /\ InitExportCall

(* The tab, the environment and the local collection the exports run with: *)
(* the collection does not change between the exports.                     *)
InitExport ==
    /\ sheet \in InitialSheets
    /\ exportConfig \in {"ok", "missing", "keyFormat"}
    /\ dataRows \in ExportInputs \cup MalformedInputs \cup InvalidInputs
    /\ InitExportCall

Calculating == [label |-> "Calculating..."]

InitHome ==
    /\ isClient = FALSE
    /\ authLoading = TRUE
    /\ selectedDate = FirstDate
    /\ dailyEntry = Null
    /\ calculatedMood = Calculating
    /\ isLoadingEntry = TRUE
    /\ pendingLoads = {}
    /\ homeSteps = 0

(* MoodAnalysis, src/components/mood-analysis.tsx: the component reads the *)
(* whole collection and hands it to analyzeMoodPatterns.                   *)
AnalysisDates == {"2024-01-01", "2024-01-02", "2024-01-03", "2024-01-04"}

AnalysisCollections ==
    {[d \in D |-> AnsweredEntry(d, Positive)] : D \in SUBSET AnalysisDates}

InsufficientData == "Za malo danych do analizy."
AnalysisFailed == "Analiza nie powiodla sie."

(* Variant: the guard lets a collection of two dates through. *)
tooFewEntriesBelowTwo(entries) == Cardinality(DOMAIN entries) < 2

(* entriesCount < 3, entriesCount being Object.keys(allEntries).length *)
tooFewEntries(entries) == Cardinality(DOMAIN entries) < 3

MaxAnalyses == 2

InitAnalysis ==
    /\ analysisIsClient = FALSE
    /\ apc = "idle"
    /\ isAnalyzing = FALSE
    /\ analysisError = "null"
    /\ analysisResult = "null"
    /\ allEntries = EmptyObject
    /\ aiCalls = 0
    /\ analyses = 0

InitAnalysisStore ==
    /\ localBlob \in {BlobAbsent, BlobNull} \cup {BlobOf(c) : c \in AnalysisCollections}
    /\ remoteConfigured \in BOOLEAN
    /\ remoteDocs \in IF remoteConfigured THEN AnalysisCollections ELSE {EmptyObject}

----------------------------------------------------------------------------
(* Specification of the score model: each call is one step *)

CallOverall ==
    \E theme \in {"dreaming", "selfEducation"}, q \in SlotMaps \cup LegalSlotMaps :
      \E dom \in ThemeDomains(theme) :
        LET ds == DetailedOf(dom, theme, q,
                             SlotMap(Slots, 2, 4, Num(Positive), Num(Negative), Num(Neutral)))
        IN /\ fnName = "none"
           /\ fnName' = "calculateOverallScores"
           /\ fnArg' = [theme |-> theme, detailedScores |-> ds]
           /\ fnRet' = calculateOverallScores(ds)
           /\ UNCHANGED <<storeVars, storeCallVars, homeVars, exportVars, analysisVars>>

CallMood ==
    \E keys \in ScoreKeySets, first \in KeyPrefixes :
      \E a \in {Num(n) : n \in Totals}, b \in {Num(n) : n \in Totals} \cup {Null} :
        LET scores == ScoresOf(keys, first, a, b)
        IN /\ fnName = "none"
           /\ fnName' = "calculateMoodFromOverallScores"
           /\ fnArg' = [scores |-> scores]
           /\ fnRet' = calculateMoodFromOverallScores(scores)
           /\ UNCHANGED <<storeVars, storeCallVars, homeVars, exportVars, analysisVars>>

CallValidate ==
    \E entry \in RawRecords, date \in Dates :
        /\ fnName = "none"
        /\ fnName' = "validateAndCompleteEntry"
        /\ fnArg' = [entry |-> entry, date |-> date]
        /\ fnRet' = validateAndCompleteEntry(entry, date)
        /\ UNCHANGED <<storeVars, storeCallVars, homeVars, exportVars, analysisVars>>

SpecScoreInit == InitAnalysis /\ InitExportIdle /\ InitPure /\ InitStoreEmpty /\ InitStoreCalls /\ InitHome

SpecScoreNext == CallOverall \/ CallMood \/ CallValidate

SpecScore == SpecScoreInit /\ [][SpecScoreNext]_vars

----------------------------------------------------------------------------
(* The payloads MoodAnalysis builds from what getAllEntries returned:      *)
(* src/components/mood-analysis.tsx.  Object.values(allEntries) is the      *)
(* sequence of the entries in the insertion order of their keys.           *)

(* the dates of the entries, in the order of their text *)
PayloadDates == <<"2024-01-01", "2024-01-02", "2024-01-03">>

DateIndex(date) == CHOOSE i \in 1..Len(PayloadDates) : PayloadDates[i] = date

(* a.localeCompare(b) on two ISO dates: negative, zero or positive *)
localeCompare(a, b) == DateIndex(a) - DateIndex(b)

(* Variant: the entries are used in the order Object.values gave them. *)
SortAsInserted(entries) == entries

RECURSIVE InsertByDate(_, _)
(* e goes after the entries that do not come after it: the sort is stable *)
InsertByDate(sorted, e) ==
    IF sorted = <<>> THEN <<e>>
    ELSE IF localeCompare(sorted[Len(sorted)].date, e.date) <= 0
         THEN Append(sorted, e)
         ELSE Append(InsertByDate(SubSeq(sorted, 1, Len(sorted) - 1), e), sorted[Len(sorted)])

RECURSIVE SortFrom(_, _)
SortFrom(entries, n) ==
    IF n = 0 THEN <<>> ELSE InsertByDate(SortFrom(entries, n - 1), entries[n])

(* Object.values(allEntries).sort((a, b) => a.date.localeCompare(b.date)) *)
SortByDate(entries) == SortFrom(entries, Len(entries))

(* entry.scores?.[themeKey] ?? 0 *)
ScoreOrZero(entry, themeKey) ==
    IF "scores" \in DOMAIN entry
    THEN Coalesce(themeKey \in DOMAIN entry.scores /\ entry.scores[themeKey].t # "undefined",
                  entry.scores[themeKey], Num(0)).v
    ELSE 0

(* entry.mood || 'not specified' *)
MoodOrNotSpecified(entry) ==
    IF "mood" \in DOMAIN entry /\ entry.mood \notin {"null", ""}
    THEN entry.mood ELSE "not specified"

(* JSON.stringify of an array of flat objects of strings and numbers: the  *)
(* text that lists the objects in the order of the array                    *)
JSONstringify(array) == [json |-> array]

prepareDataForAnalysis(entries) ==
    LET entriesArray == SortByDate(entries)
        moodData == [i \in 1..Len(entriesArray) |->
                        [date |-> entriesArray[i].date,
                         mood |-> MoodOrNotSpecified(entriesArray[i])]]
        themeScores == [i \in 1..Len(entriesArray) |->
                           [k \in {"date"} \cup Themes |->
                               IF k = "date" THEN entriesArray[i].date
                               ELSE ScoreOrZero(entriesArray[i], k)]]
    IN [moodData |-> JSONstringify(moodData), themeScores |-> JSONstringify(themeScores)]

prepareDataForSheetExport(entries) ==
    LET entriesArray == SortByDate(entries)
    IN IF Len(entriesArray) = 0 THEN <<>>
       ELSE [i \in 1..Len(entriesArray) |->
                <<entriesArray[i].date>>
                \o [k \in 1..Len(themeOrder) |-> ScoreOrZero(entriesArray[i], themeOrder[k])]]

(* entries of a collection: complete ones, ones without scores, ones whose *)
(* scores lack themes or hold null                                          *)
PayloadEntries(date) ==
    {AnsweredEntry(date, Positive),
     LegacyRecord(date),
     PartialRecord(date),
     [date |-> date, mood |-> "", scores |-> [t \in {"diet"} |-> Num(Negative)]],
     [date |-> date, mood |-> "null",
      scores |-> [createDefaultThemeScores EXCEPT !["training"] = Null]]}

(* the values of a collection keyed by date, in every insertion order *)
PayloadInputs ==
    {es \in SeqsUpTo(UNION {PayloadEntries(PayloadDates[i]) : i \in 1..Len(PayloadDates)},
                     Len(PayloadDates)) :
        \A i, j \in 1..Len(es) : i # j => es[i].date # es[j].date}

CallPrepareAnalysis ==
    \E entries \in PayloadInputs :
        /\ fnName = "none"
        /\ fnName' = "prepareDataForAnalysis"
        /\ fnArg' = [entries |-> entries]
        /\ fnRet' = prepareDataForAnalysis(entries)
        /\ UNCHANGED <<storeVars, storeCallVars, homeVars, exportVars, analysisVars>>

CallPrepareSheetExport ==
    \E entries \in PayloadInputs :
        /\ fnName = "none"
        /\ fnName' = "prepareDataForSheetExport"
        /\ fnArg' = [entries |-> entries]
        /\ fnRet' = prepareDataForSheetExport(entries)
        /\ UNCHANGED <<storeVars, storeCallVars, homeVars, exportVars, analysisVars>>

SpecPayloadNext == CallPrepareAnalysis \/ CallPrepareSheetExport

SpecPayload == SpecScoreInit /\ [][SpecPayloadNext]_vars

----------------------------------------------------------------------------
(* The end of exportToGoogleSheets as a function of what the partition     *)
(* left and of the counts the two write responses carry:                   *)
(* batchUpdateResponse.data.totalUpdatedRows and                            *)
(* appendResponse.data.updates?.updatedRows are optional fields of the     *)
(* responses.                                                              *)

(* a || b on a count that may be absent *)
OrElse(c, dflt) == IF IsNum(c) /\ c.v # 0 THEN c.v ELSE dflt

(* lines 261-318 after both writes succeeded *)
exportSummary(data, toUpdate, toAppend, totalUpdatedRows, updatedRows) ==
    LET updatedCount == IF Len(toUpdate) > 0 THEN OrElse(totalUpdatedRows, 0) ELSE 0
        appendedCount == IF Len(toAppend) > 0 THEN OrElse(updatedRows, Len(toAppend)) ELSE 0
    IN ExportSuccess(appendedCount, updatedCount,
                     summaryMessage(data, toUpdate, toAppend, updatedCount, appendedCount))

(* the tables whose header matches *)
HeadedSheets == {sh \in InitialSheets : HeaderRow(sh) = SHEET_HEADERS}

CallSummary ==
    \E data \in ExportInputs, sh \in HeadedSheets :
      LET map == existingDatesMap(DateColumn(sh), Len(DateColumn(sh)))
          toUpdate == PartitionUpdates(data, map, SHEET_HEADERS)
          toAppend == PartitionAppends(data, map)
      IN \E totalUpdatedRows \in {Undefined, Num(Len(toUpdate))},
            updatedRows \in {Undefined, Num(Len(toAppend))} :
            /\ fnName = "none"
            /\ fnName' = "exportSummary"
            /\ fnArg' = [data |-> data, sheet |-> sh, rowsToUpdate |-> toUpdate,
                         rowsToAppend |-> toAppend, totalUpdatedRows |-> totalUpdatedRows,
                         updatedRows |-> updatedRows]
            /\ fnRet' = exportSummary(data, toUpdate, toAppend, totalUpdatedRows, updatedRows)
            /\ UNCHANGED <<storeVars, storeCallVars, homeVars, exportVars, analysisVars>>

SpecSummary == SpecScoreInit /\ [][CallSummary]_vars

----------------------------------------------------------------------------
(* Specification of the entry store: calls of saveDailyEntry and           *)
(* getDailyEntry, one after the other, by one caller                       *)

(* which writes of saveDailyEntry took effect, and whether it threw before *)
(* it wrote anything                                                       *)
SaveOutcome(localOk, remoteOk) ==
    [localOk |-> localOk /\ ~LocalAccessThrows,
     remoteOk |-> remoteConfigured /\ remoteOk /\ ~LocalAccessThrows,
     threw |-> LocalAccessThrows]

(* saveDailyEntry is Promise<void>: it fulfils with undefined whatever the  *)
(* writes did, and rejects when the local access throws                     *)
SaveReturn == IF LocalAccessThrows THEN Rejected ELSE Fulfilled(Undefined)

SaveDailyEntry ==
    \E entry \in SaveInputs, localOk \in BOOLEAN, remoteOk \in BOOLEAN :
        /\ storeOps < MaxStoreOps
        /\ remoteConfigured \/ remoteOk
        /\ localBlob' = SavedLocal(entry, localOk)
        /\ remoteDocs' = SavedRemote(entry, remoteOk)
        /\ storeOps' = storeOps + 1
        /\ lastOp' = "save"
        /\ lastSaved' = entry
        /\ saveOutcome' = SaveOutcome(localOk, remoteOk)
        /\ saveReturn' = SaveReturn
        /\ UNCHANGED <<exportVars, pureVars, analysisVars, remoteConfigured, gotDate, got, gotAll, homeVars>>

GetDailyEntry ==
    \E date \in Dates, readOk \in BOOLEAN :
        /\ storeOps < MaxStoreOps
        /\ remoteConfigured \/ readOk
        /\ got' = getDailyEntry(date, readOk)
        /\ gotDate' = date
        /\ lastOp' = IF lastOp = "save" /\ lastSaved.date = date THEN "getAfterSave" ELSE "get"
        /\ storeOps' = storeOps + 1
        /\ UNCHANGED <<exportVars, pureVars, analysisVars, storeVars, lastSaved, saveOutcome, saveReturn,
                       gotAll, homeVars>>

GetAllEntries ==
    \E readOk \in BOOLEAN :
        /\ storeOps < MaxStoreOps
        /\ remoteConfigured \/ readOk
        /\ gotAll' = getAllEntries(readOk)
        /\ lastOp' = "getAll"
        /\ storeOps' = storeOps + 1
        /\ UNCHANGED <<exportVars, pureVars, analysisVars, storeVars, lastSaved, saveOutcome, saveReturn,
                       gotDate, got, homeVars>>

SpecStoreInit == InitAnalysis /\ InitExportIdle /\ InitPure /\ InitStore /\ InitStoreCalls /\ InitHome

SpecStoreNext == SaveDailyEntry \/ GetDailyEntry \/ GetAllEntries

SpecStore == SpecStoreInit /\ [][SpecStoreNext]_vars

----------------------------------------------------------------------------
(* Specification of the Home page: its effects and handlers over the store *)

MaxHomeSteps == 2

(* the load effect: runs when isClient, selectedDate or authLoading change *)
LoadEffect(client, loading, date) ==
    IF client /\ ~loading
    THEN /\ isLoadingEntry' = TRUE
         /\ pendingLoads' = pendingLoads \cup {date}
    ELSE UNCHANGED <<isLoadingEntry, pendingLoads>>

(* the save effect, for the values of the render that runs it *)
SaveEffect(entry, date, loadingEntry, localOk, remoteOk) ==
    IF entry # Null /\ isClient /\ entry.date = date /\ ~loadingEntry /\ ~authLoading
    THEN /\ localBlob' = SavedLocal(entry, localOk)
         /\ remoteDocs' = SavedRemote(entry, remoteOk)
         /\ lastOp' = "save"
         /\ lastSaved' = entry
         /\ saveOutcome' = SaveOutcome(localOk, remoteOk)
         /\ saveReturn' = SaveReturn
    ELSE UNCHANGED <<localBlob, remoteDocs, lastOp, lastSaved, saveOutcome, saveReturn>>

Mount ==
    /\ ~isClient
    /\ isClient' = TRUE
    /\ LoadEffect(TRUE, authLoading, selectedDate)
    /\ UNCHANGED <<exportVars, pureVars, analysisVars, storeVars, storeCallVars, authLoading, selectedDate,
                   dailyEntry, calculatedMood, homeSteps>>

AuthResolved ==
    /\ authLoading
    /\ authLoading' = FALSE
    /\ LoadEffect(isClient, FALSE, selectedDate)
    /\ UNCHANGED <<exportVars, pureVars, analysisVars, storeVars, storeCallVars, isClient, selectedDate,
                   dailyEntry, calculatedMood, homeSteps>>

(* getDailyEntry(date).then(entry => ...).catch(...) followed by the save  *)
(* effect                                                                  *)
LoadResolved ==
    \E date \in pendingLoads, readOk \in BOOLEAN, localOk \in BOOLEAN, remoteOk \in BOOLEAN :
        LET entry == getDailyEntry(date, readOk)
        IN /\ remoteConfigured \/ (readOk /\ remoteOk)
           /\ pendingLoads' = pendingLoads \ {date}
           /\ isLoadingEntry' = FALSE
           /\ IF entry = Rejected
              THEN /\ UNCHANGED <<dailyEntry, calculatedMood>>
                   /\ SaveEffect(dailyEntry, selectedDate, FALSE, localOk, remoteOk)
              ELSE /\ dailyEntry' = entry
                   /\ calculatedMood' = calculateMoodFromOverallScores(entry.scores)
                   /\ SaveEffect(entry, selectedDate, FALSE, localOk, remoteOk)
           /\ UNCHANGED <<exportVars, pureVars, analysisVars, remoteConfigured, storeOps, gotDate, got, gotAll,
                          isClient, authLoading, selectedDate, homeSteps>>

FormShown == isClient /\ ~authLoading /\ ~isLoadingEntry /\ dailyEntry # Null

EditedThemes == {"dreaming", "diet"}
EditedSlots == {0}

(* Variant: only the total of the edited theme is refreshed. *)
handleQuestionScoreChangeThemeOnly(prevEntry, theme, questionIndex, value) ==
    LET prevDetailed == prevEntry.detailedScores
        themeMap == IF theme \in DOMAIN prevDetailed THEN prevDetailed[theme] ELSE EmptyObject
        newDetailedScores ==
            Spread(prevDetailed,
                   [t \in {theme} |-> Spread(themeMap, [i \in {questionIndex} |-> Num(value)])])
    IN IF prevEntry = Null THEN Null
       ELSE [date |-> prevEntry.date,
             mood |-> prevEntry.mood,
             scores |-> Spread(prevEntry.scores,
                               [t \in {theme} |-> Num(ThemeTotal(newDetailedScores, theme))]),
             detailedScores |-> newDetailedScores]

(* the updater passed to setDailyEntry: null stays null *)
handleQuestionScoreChange(prevEntry, theme, questionIndex, value) ==
    LET prevDetailed == prevEntry.detailedScores
        themeMap == IF theme \in DOMAIN prevDetailed THEN prevDetailed[theme] ELSE EmptyObject
        newDetailedScores ==
            Spread(prevDetailed,
                   [t \in {theme} |-> Spread(themeMap, [i \in {questionIndex} |-> Num(value)])])
    IN IF prevEntry = Null THEN Null
       ELSE [date |-> prevEntry.date,
             mood |-> prevEntry.mood,
             scores |-> calculateOverallScores(newDetailedScores),
             detailedScores |-> newDetailedScores]

HandleQuestionScoreChange ==
    \E theme \in EditedThemes, questionIndex \in EditedSlots, value \in LegalAnswers,
       localOk \in BOOLEAN, remoteOk \in BOOLEAN :
        LET newEntry == handleQuestionScoreChange(dailyEntry, theme, questionIndex, value)
        IN /\ FormShown
           /\ homeSteps < MaxHomeSteps
           /\ remoteConfigured \/ remoteOk
           /\ homeSteps' = homeSteps + 1
           /\ dailyEntry' = newEntry
           /\ calculatedMood' = calculateMoodFromOverallScores(newEntry.scores)
           /\ SaveEffect(newEntry, selectedDate, isLoadingEntry, localOk, remoteOk)
           /\ UNCHANGED <<exportVars, pureVars, analysisVars, remoteConfigured, storeOps, gotDate, got, gotAll,
                          isClient, authLoading, selectedDate, isLoadingEntry, pendingLoads>>

(* the DatePicker is part of the form; choosing another date runs the load *)
(* effect, and the save effect of that render sees the old isLoadingEntry  *)
HandleDateChange ==
    \E date \in Dates \ {selectedDate} :
        /\ FormShown
        /\ homeSteps < MaxHomeSteps
        /\ homeSteps' = homeSteps + 1
        /\ selectedDate' = date
        /\ LoadEffect(isClient, authLoading, date)
        /\ UNCHANGED <<exportVars, pureVars, analysisVars, storeVars, storeCallVars, isClient, authLoading,
                       dailyEntry, calculatedMood>>

SpecHomeInit == InitAnalysis /\ InitExportIdle /\ InitPure /\ InitStore /\ InitStoreCalls /\ InitHome

SpecHomeNext ==
    Mount \/ AuthResolved \/ LoadResolved \/ HandleQuestionScoreChange \/ HandleDateChange

SpecHome == SpecHomeInit /\ [][SpecHomeNext]_vars

(* The Home page of a deployment without Firestore: the same steps over    *)
(* localStorage alone.                                                     *)
InitStoreLocal ==
    /\ localBlob \in {BlobAbsent, BlobCorrupt, BlobNull} \cup {BlobOf(c) : c \in StoredCollections}
    /\ remoteConfigured = FALSE
    /\ remoteDocs = EmptyObject

SpecHomeLocalInit ==
    InitAnalysis /\ InitExportIdle /\ InitPure /\ InitStoreLocal /\ InitStoreCalls /\ InitHome

SpecHomeLocal == SpecHomeLocalInit /\ [][SpecHomeNext]_vars

----------------------------------------------------------------------------
(* Specification of the analysis button of MoodAnalysis: a step is the     *)
(* mount effect, a click, or the settlement of the call the handler awaits *)

(* useEffect(() => setIsClient(true), []) *)
MountAnalysis ==
    /\ ~analysisIsClient
    /\ analysisIsClient' = TRUE
    /\ UNCHANGED <<apc, isAnalyzing, analysisError, analysisResult, allEntries, aiCalls, analyses>>
    /\ UNCHANGED <<pureVars, storeVars, storeCallVars, homeVars, exportVars>>

(* a click on the button, which is disabled while isAnalyzing: the handler *)
(* runs up to its await of fetchDataForUser                                *)
HandleAnalyzeMoods ==
    /\ analyses < MaxAnalyses
    /\ ~isAnalyzing
    /\ apc \in {"idle", "returned"}
    /\ analyses' = analyses + 1
    /\ IF ~analysisIsClient
       THEN UNCHANGED <<apc, isAnalyzing, analysisError, analysisResult, allEntries, aiCalls>>
       ELSE /\ isAnalyzing' = TRUE
            /\ analysisError' = "null"
            /\ analysisResult' = "null"
            /\ allEntries' = EmptyObject
            /\ aiCalls' = 0
            /\ apc' = "getAllEntries"
    /\ UNCHANGED analysisIsClient
    /\ UNCHANGED <<pureVars, storeVars, storeCallVars, homeVars, exportVars>>

(* getAllEntries has resolved: the guard, then the call of the flow *)
FetchResolved ==
    \E readOk \in BOOLEAN :
        /\ apc = "getAllEntries"
        /\ remoteConfigured \/ readOk
        /\ allEntries' = getAllEntries(readOk)
        /\ IF tooFewEntries(getAllEntries(readOk))
           THEN /\ analysisError' = InsufficientData
                /\ isAnalyzing' = FALSE
                /\ apc' = "returned"
                /\ UNCHANGED aiCalls
           ELSE /\ aiCalls' = aiCalls + 1
                /\ apc' = "analyzeMoodPatterns"
                /\ UNCHANGED <<analysisError, isAnalyzing>>
        /\ UNCHANGED <<analysisIsClient, analysisResult, analyses>>
        /\ UNCHANGED <<pureVars, storeVars, storeCallVars, homeVars, exportVars>>

(* analyzeMoodPatterns has settled: the insights or the catch, then finally *)
AnalyzeResolved ==
    \E ok \in BOOLEAN :
        /\ apc = "analyzeMoodPatterns"
        /\ IF ok THEN analysisResult' = "insights" /\ UNCHANGED analysisError
           ELSE analysisError' = AnalysisFailed /\ UNCHANGED analysisResult
        /\ isAnalyzing' = FALSE
        /\ apc' = "returned"
        /\ UNCHANGED <<analysisIsClient, allEntries, aiCalls, analyses>>
        /\ UNCHANGED <<pureVars, storeVars, storeCallVars, homeVars, exportVars>>

SpecAnalysisInit ==
    InitAnalysis /\ InitExportIdle /\ InitPure /\ InitAnalysisStore /\ InitStoreCalls /\ InitHome

SpecAnalysisNext == MountAnalysis \/ HandleAnalyzeMoods \/ FetchResolved \/ AnalyzeResolved

SpecAnalysis == SpecAnalysisInit /\ [][SpecAnalysisNext]_vars

----------------------------------------------------------------------------
(* exportToGoogleSheets, one action per awaited call.  The outcome of a    *)
(* call is "ok" or the error the Sheets API threw: "e400" is code 400 with *)
(* 'Unable to parse range', "e403" permission denied, "e404" not found,    *)
(* "err" any other error.  A failed write leaves the sheet as it was.      *)

ExportReturns(result) ==
    /\ xpc' = "done"
    /\ exportResult' = result

(* Variant: the new rows are appended first and the updates are left out. *)
AfterPartitionAppendFirst(toUpdate, toAppend) ==
    /\ rowsToUpdate' = toUpdate
    /\ rowsToAppend' = toAppend
    /\ IF Len(toAppend) > 0 THEN xpc' = "append" /\ UNCHANGED exportResult
       ELSE IF Len(toUpdate) > 0 THEN xpc' = "batchUpdate" /\ UNCHANGED exportResult
       ELSE ExportReturns(ExportSuccess(0, 0,
                summaryMessage(exportData, toUpdate, toAppend, 0, 0)))

(* Lines 259-318 from the end of the partition to the next awaited call.   *)
AfterPartition(toUpdate, toAppend) ==
    /\ rowsToUpdate' = toUpdate
    /\ rowsToAppend' = toAppend
    /\ IF Len(toUpdate) > 0 THEN xpc' = "batchUpdate" /\ UNCHANGED exportResult
       ELSE IF Len(toAppend) > 0 THEN xpc' = "append" /\ UNCHANGED exportResult
       ELSE ExportReturns(ExportSuccess(0, 0,
                summaryMessage(exportData, toUpdate, toAppend, 0, 0)))

(* Lines 76-130: configuration, key format, input validation, auth, for   *)
(* exportToGoogleSheets({ headers: SHEET_HEADERS, data: dataRows }).       *)
StartExport ==
    /\ xpc = "done"
    /\ \E authOk \in BOOLEAN :
        /\ exportData' = dataRows
        /\ prevExport' = [called |-> exportResult # NoExport, data |-> exportData,
                          success |-> exportResult.success]
        /\ sheet0' = sheet
        /\ writeCalls' = <<>>
        /\ lastCall' = NoApiCall
        /\ rowsToUpdate' = <<>>
        /\ rowsToAppend' = <<>>
        /\ rowsUpdatedCount' = 0
        /\ rowsAppendedCount' = 0
        /\ CASE exportConfig = "missing" ->
                  ExportReturns(ExportFailure("Server configuration error"))
             [] exportConfig = "keyFormat" ->
                  ExportReturns(ExportFailure("Invalid GOOGLE_PRIVATE_KEY format"))
             [] ~ExportInputSchema([headers |-> SHEET_HEADERS, data |-> dataRows]) ->
                  ExportReturns(ExportFailure("Invalid data format"))
             [] ~authOk -> ExportReturns(ExportFailure("Failed to authenticate with Google"))
             [] OTHER -> xpc' = "readHeader" /\ exportResult' = NoExport
        /\ UNCHANGED <<sheet, exportConfig, dataRows, pureVars, analysisVars, storeVars, storeCallVars,
                       homeVars>>

(* Lines 137-207: values.get of A1:Z1 and the header check. *)
ReadHeader ==
    /\ xpc = "readHeader"
    /\ \E outcome \in {"ok", "e403", "e404", "err"} \cup (IF sheet = <<>> THEN {"e400"} ELSE {}) :
        /\ lastCall' = ApiCall("readHeader", outcome)
        /\ LET existingHeaders == IF outcome = "ok" THEN HeaderRow(sheet) ELSE <<>>
           IN CASE outcome = "e403" ->
                     ExportReturns(ExportFailure("Permission denied reading headers"))
                [] outcome = "e404" -> ExportReturns(ExportFailure("Spreadsheet not found"))
                [] outcome = "err" -> ExportReturns(ExportFailure("Error reading from sheet"))
                [] OTHER ->
                     IF Len(existingHeaders) = 0
                     THEN xpc' = "writeHeader" /\ UNCHANGED exportResult
                     ELSE IF ~headersMatch(existingHeaders, SHEET_HEADERS)
                          THEN ExportReturns(ExportFailure("Header mismatch"))
                          ELSE xpc' = "readDates" /\ UNCHANGED exportResult
    /\ UNCHANGED <<sheet, exportData, rowsToUpdate, rowsToAppend, rowsUpdatedCount,
                   rowsAppendedCount, sheet0, writeCalls, prevExport, exportConfig, dataRows,
                   pureVars, analysisVars, storeVars, storeCallVars, homeVars>>

(* Lines 176-199: values.update of A1 with the headers; all data is new. *)
WriteHeader ==
    /\ xpc = "writeHeader"
    /\ writeCalls' = Append(writeCalls, "update")
    /\ \E outcome \in {"ok", "e403", "e404", "err"} :
        /\ lastCall' = ApiCall("writeHeader", outcome)
        /\ CASE outcome = "e403" ->
                  /\ ExportReturns(ExportFailure("Permission denied writing headers"))
                  /\ UNCHANGED <<sheet, rowsToUpdate, rowsToAppend>>
             [] outcome \in {"e404", "err"} ->
                  /\ ExportReturns(ExportFailure("Failed to write headers"))
                  /\ UNCHANGED <<sheet, rowsToUpdate, rowsToAppend>>
             [] OTHER ->
                  /\ sheet' = SheetWithHeaders(sheet, SHEET_HEADERS)
                  /\ AfterPartition(<<>>, exportData)
    /\ UNCHANGED <<exportData, rowsUpdatedCount, rowsAppendedCount, sheet0,
                   prevExport, exportConfig, dataRows, pureVars, analysisVars, storeVars, storeCallVars, homeVars>>

(* Lines 210-257: values.get of A2:A, existingDatesMap and the partition. *)
ReadDates ==
    /\ xpc = "readDates"
    /\ \E outcome \in {"ok", "e403", "e404", "err"}
                        \cup (IF Len(sheet) <= 1 THEN {"e400"} ELSE {}) :
        /\ lastCall' = ApiCall("readDates", outcome)
        /\ LET col == IF outcome = "ok" THEN DateColumn(sheet) ELSE <<>>
               map == existingDatesMap(col, Len(col))
           IN CASE outcome = "e403" ->
                     /\ ExportReturns(ExportFailure("Permission denied reading date values"))
                     /\ UNCHANGED <<rowsToUpdate, rowsToAppend>>
                [] outcome \in {"e404", "err"} ->
                     /\ ExportReturns(ExportFailure("Failed to read existing date values"))
                     /\ UNCHANGED <<rowsToUpdate, rowsToAppend>>
                [] OTHER ->
                     AfterPartition(PartitionUpdates(exportData, map, SHEET_HEADERS),
                                    PartitionAppends(exportData, map))
    /\ UNCHANGED <<sheet, exportData, rowsUpdatedCount, rowsAppendedCount, sheet0,
                   writeCalls, prevExport, exportConfig, dataRows,
                   pureVars, analysisVars, storeVars, storeCallVars, homeVars>>

(* Lines 261-278: values.batchUpdate of the ranges; totalUpdatedRows is    *)
(* the number of rows the call wrote.                                      *)
BatchUpdate ==
    /\ xpc = "batchUpdate"
    /\ writeCalls' = Append(writeCalls, "batchUpdate")
    /\ \E outcome \in {"ok", "e403", "e404", "err"} :
        /\ lastCall' = ApiCall("batchUpdate", outcome)
        /\ IF outcome # "ok"
           THEN /\ ExportReturns(ExportFailure("Failed to update rows"))
                /\ UNCHANGED <<sheet, rowsUpdatedCount>>
           ELSE /\ sheet' = SheetWithUpdates(sheet, rowsToUpdate, Len(rowsToUpdate))
                /\ rowsUpdatedCount' = Len(rowsToUpdate)
                /\ IF Len(rowsToAppend) > 0
                   THEN xpc' = "append" /\ UNCHANGED exportResult
                   ELSE ExportReturns(ExportSuccess(0, Len(rowsToUpdate),
                            summaryMessage(exportData, rowsToUpdate, rowsToAppend,
                                           Len(rowsToUpdate), 0)))
    /\ UNCHANGED <<exportData, rowsToUpdate, rowsToAppend, rowsAppendedCount, sheet0,
                   prevExport, exportConfig, dataRows, pureVars, analysisVars, storeVars, storeCallVars, homeVars>>

(* Lines 280-318: values.append of the new rows and the summary. *)
AppendRows ==
    /\ xpc = "append"
    /\ writeCalls' = Append(writeCalls, "append")
    /\ \E outcome \in {"ok", "e403", "e404", "err"} :
        /\ lastCall' = ApiCall("append", outcome)
        /\ CASE outcome = "e403" ->
                  /\ ExportReturns(ExportFailure("Permission denied appending data"))
                  /\ UNCHANGED <<sheet, rowsAppendedCount>>
             [] outcome \in {"e404", "err"} ->
                  /\ ExportReturns(ExportFailure("Failed to append new data"))
                  /\ UNCHANGED <<sheet, rowsAppendedCount>>
             [] OTHER ->
                  /\ sheet' = SheetWithAppended(sheet, rowsToAppend)
                  /\ rowsAppendedCount' = Len(rowsToAppend)
                  /\ ExportReturns(ExportSuccess(Len(rowsToAppend), rowsUpdatedCount,
                         summaryMessage(exportData, rowsToUpdate, rowsToAppend,
                                        rowsUpdatedCount, Len(rowsToAppend))))
    /\ UNCHANGED <<exportData, rowsToUpdate, rowsToAppend, rowsUpdatedCount, sheet0,
                   prevExport, exportConfig, dataRows, pureVars, analysisVars, storeVars, storeCallVars, homeVars>>

SpecExportInit ==
    InitAnalysis /\ InitExport /\ InitPure /\ InitStoreEmpty /\ InitStoreCalls /\ InitHome

SpecExportNext ==
    StartExport \/ ReadHeader \/ WriteHeader \/ ReadDates \/ BatchUpdate \/ AppendRows

SpecExport == SpecExportInit /\ [][SpecExportNext]_vars

----------------
(* Claims about the score model *)

RECURSIVE SumSet(_, _)
SumSet(q, S) ==
    IF S = {} THEN 0
    ELSE LET i == CHOOSE x \in S : TRUE
         IN (IF IsNum(q[i]) THEN q[i].v ELSE 0) + SumSet(q, S \ {i})

CountOf(q, n) == Cardinality({i \in DOMAIN q : q[i] = Num(n)})

AllSlotsLegal(q) ==
    /\ DOMAIN q = Slots
    /\ \A i \in Slots : IsNum(q[i]) /\ q[i].v \in LegalAnswers

InRange(n) == MinTotal <= n /\ n <= MaxTotal

(* C8: a theme whose 8 slots hold legal answers gets exactly their sum,    *)
(* which lies in [-2, 2]; whatever numbers the slots hold, every total     *)
(* returned lies in [-2, 2].                                               *)
C8_ThemeTotalIsExactSum ==
    fnName = "calculateOverallScores" =>
        LET ds == fnArg.detailedScores
        IN /\ DOMAIN fnRet = Themes
           /\ \A t \in Themes : IsNum(fnRet[t]) /\ InRange(fnRet[t].v)
           /\ \A t \in DOMAIN ds :
                AllSlotsLegal(ds[t]) =>
                    fnRet[t].v = Positive * CountOf(ds[t], Positive)
                                 + Negative * CountOf(ds[t], Negative)

C8_Witness ==
    /\ fnName = "calculateOverallScores"
    /\ "dreaming" \in DOMAIN fnArg.detailedScores
    /\ AllSlotsLegal(fnArg.detailedScores["dreaming"])
    /\ CountOf(fnArg.detailedScores["dreaming"], Positive) = 5
    /\ CountOf(fnArg.detailedScores["dreaming"], Negative) = 2
    /\ fnRet["dreaming"] = Num(750)

(* C8, the clamp at work: slots holding numbers outside the legal set      *)
C8_WitnessClamped ==
    /\ fnName = "calculateOverallScores"
    /\ "dreaming" \in DOMAIN fnArg.detailedScores
    /\ SumSet(fnArg.detailedScores["dreaming"], DOMAIN fnArg.detailedScores["dreaming"]) > MaxTotal
    /\ fnRet["dreaming"] = Num(MaxTotal)

SlotsLegalOrNull(q) ==
    \A i \in DOMAIN q : q[i] = Null \/ (IsNum(q[i]) /\ q[i].v \in LegalAnswers)

(* C9: a missing slot and a missing theme map count as 0: the empty        *)
(* detailedScores gives 0 for all 7 themes, a partial map of legal answers *)
(* gives the sum of the slots present, and every total lies in [-2, 2].    *)
C9_MissingSlotsAreZero ==
    fnName = "calculateOverallScores" =>
        LET ds == fnArg.detailedScores
        IN /\ \A t \in Themes \ DOMAIN ds : fnRet[t] = Num(0)
           /\ \A t \in DOMAIN ds :
                SlotsLegalOrNull(ds[t]) =>
                    fnRet[t].v = SumSet(ds[t], DOMAIN ds[t] \cap Slots)
           /\ \A t \in Themes : InRange(fnRet[t].v)

C9_Witness ==
    /\ fnName = "calculateOverallScores"
    /\ "dreaming" \in DOMAIN fnArg.detailedScores
    /\ DOMAIN fnArg.detailedScores["dreaming"] = {1, 3, 5, 7}
    /\ \A i \in {1, 3, 5, 7} : fnArg.detailedScores["dreaming"][i] = Num(Positive)
    /\ fnRet["dreaming"] = Num(1000)

C9_WitnessEmpty ==
    /\ fnName = "calculateOverallScores"
    /\ DOMAIN fnArg.detailedScores = {}
    /\ \A t \in Themes : fnRet[t] = Num(0)

NumThemes == 7

(* the category the thresholds give for average = sum of the theme totals  *)
(* over 7                                                                  *)
CategoryOfSeven(scores) ==
    LET sum == SumSet(scores, DOMAIN scores \cap Themes)
    IN IF sum <= badThreshold * NumThemes THEN "Bad"
       ELSE IF sum >= goodThreshold * NumThemes THEN "Good"
       ELSE "Normal"

(* C10: the category is Bad iff (sum of the theme totals) / 7 <= -0.75,    *)
(* Good iff it is >= 0.75 and Normal otherwise, the divisor being 7        *)
(* whatever keys the scores object carries.                                *)
C10_MoodIsAverageOverSeven ==
    fnName = "calculateMoodFromOverallScores" =>
        fnRet.label = CategoryOfSeven(fnArg.scores)

(* C10 restricted to objects that carry exactly the 7 theme keys *)
C10_MoodOfSevenKeys ==
    (fnName = "calculateMoodFromOverallScores" /\ DOMAIN fnArg.scores = Themes) =>
        fnRet.label = CategoryOfSeven(fnArg.scores)

C10_BoundaryGood ==
    /\ fnName = "calculateMoodFromOverallScores"
    /\ DOMAIN fnArg.scores = Themes
    /\ \A t \in Themes : fnArg.scores[t] = Num(750)
    /\ fnRet.label = "Good"

----------------------------------------------------------------------------
(* Claims about schema completion *)

Validated == fnName = "validateAndCompleteEntry"

RawSlots(entry, t) ==
    IF "detailedScores" \in DOMAIN entry /\ t \in DOMAIN entry.detailedScores
    THEN entry.detailedScores[t]
    ELSE EmptyObject

(* Every theme has every slot; a slot the record had is kept, a slot it    *)
(* did not have is 0.                                                      *)
SlotsCompleted(entry, e) ==
    \A t \in Themes :
        /\ t \in DOMAIN e.detailedScores
        /\ DOMAIN e.detailedScores[t] = Slots
        /\ \A i \in Slots :
             e.detailedScores[t][i] =
                 IF i \in DOMAIN RawSlots(entry, t) THEN RawSlots(entry, t)[i] ELSE Num(0)

(* C14: for every raw record, validateAndCompleteEntry returns an entry in  *)
(* which all 7 themes have all 8 slots (missing ones 0) and, when the       *)
(* record has no scores field, scores = calculateOverallScores of the       *)
(* completed detailedScores.                                                *)
C14_SchemaCompletion ==
    Validated =>
        /\ SlotsCompleted(fnArg.entry, fnRet)
        /\ "scores" \notin DOMAIN fnArg.entry =>
               fnRet.scores = calculateOverallScores(fnRet.detailedScores)

(* What the code does: the slots are completed, and scores is the record's  *)
(* scores over defaults of 0, never derived from the answers.               *)
C14_SlotsCompletedScoresDefaulted ==
    Validated =>
        /\ SlotsCompleted(fnArg.entry, fnRet)
        /\ "scores" \notin DOMAIN fnArg.entry => fnRet.scores = [t \in Themes |-> Num(0)]

----------------------------------------------------------------------------
(* Claims about the entry store *)

(* The records of the local collection, none when the item is not one. *)
LocalRecords == IF localBlob.kind = "data" THEN localBlob.data ELSE EmptyObject

WritesSucceeded ==
    saveOutcome.localOk /\ (remoteConfigured => saveOutcome.remoteOk)

(* C5: saveDailyEntry(e) followed by getDailyEntry(e.date) on the same     *)
(* backend returns e's detailedScores, and scores equal to                 *)
(* calculateOverallScores(e.detailedScores), also for an e whose scores    *)
(* field disagrees with its detailedScores.                                *)
C5_RoundTripDerivesScores ==
    (lastOp = "getAfterSave" /\ WritesSucceeded) =>
        /\ got.detailedScores = lastSaved.detailedScores
        /\ got.scores = calculateOverallScores(lastSaved.detailedScores)

(* C6: once saveDailyEntry(e) has completed, the next getDailyEntry(e.date) *)
(* returns the answers of e, whether or not the remote store is configured  *)
(* and whatever the outcome of the remote write.                            *)
C6_ReadAfterWrite ==
    (lastOp = "getAfterSave" /\ saveOutcome.localOk) =>
        got.detailedScores = lastSaved.detailedScores

GetReturned == lastOp \in {"get", "getAfterSave"}

(* The store holds no record for the date, locally or remotely, and the    *)
(* local item is not the JSON text null.                                   *)
NoRecordFor(date) ==
    /\ localBlob.kind # "null"
    /\ date \notin DOMAIN LocalRecords
    /\ date \notin DOMAIN remoteDocs

AllZeroEntry(date) ==
    [date |-> date, mood |-> "null",
     scores |-> [t \in Themes |-> Num(0)],
     detailedScores |-> [t \in Themes |-> [i \in 0..7 |-> Num(0)]]]

C11_WitnessEmptyStore ==
    /\ GetReturned
    /\ localBlob = BlobAbsent
    /\ remoteDocs = EmptyObject
    /\ got = AllZeroEntry(gotDate)

FullyPopulated(e) ==
    /\ DOMAIN e = {"date", "mood", "scores", "detailedScores"}
    /\ Themes \subseteq DOMAIN e.scores
    /\ Themes \subseteq DOMAIN e.detailedScores
    /\ \A t \in Themes : Slots \subseteq DOMAIN e.detailedScores[t]

(* C12: whatever the state of the backends (local item absent, unparseable, *)
(* the JSON text null, a failing remote read, remote configured or not),    *)
(* getDailyEntry(d) completes with a fully populated entry and does not     *)
(* reject.                                                                  *)
C12_GetDailyEntryNeverFails ==
    GetReturned => (got # Rejected /\ FullyPopulated(got))

(* What holds instead: the read completes with a fully populated entry      *)
(* unless the local item is the JSON text null and no remote document is    *)
(* returned.                                                                *)
C12_GetDailyEntryFailsOnlyOnNull ==
    (GetReturned /\ localBlob.kind # "null") => (got # Rejected /\ FullyPopulated(got))

(* localStorage.setItem threw, or the remote write returned success: false *)
AWriteFailed ==
    /\ ~saveOutcome.threw
    /\ ~saveOutcome.localOk \/ (remoteConfigured /\ ~saveOutcome.remoteOk)

(* C13: when a write inside saveDailyEntry fails, saveDailyEntry does not   *)
(* throw past the caller and returns a value that tells the caller so.      *)
C13_WriteFailureIsReturned ==
    (lastOp = "save" /\ AWriteFailed) =>
        (saveReturn.settled = "fulfilled" /\ saveReturn.value # Undefined)

(* What the code does: a save whose writes failed settles exactly as one    *)
(* whose writes succeeded, with undefined, unless the local access threw.   *)
C13_SaveReturnsUndefined ==
    (lastOp = "save" /\ saveReturn.settled = "fulfilled") => saveReturn.value = Undefined

AllLegal(e) ==
    \A t \in Themes, i \in Slots :
        e.detailedScores[t][i] \in {Num(-250), Num(0), Num(250)}

(* C15: every entry returned by getDailyEntry or getAllEntries and every    *)
(* entry written by saveDailyEntry holds one of -0.25, 0, 0.25 in each of   *)
(* its 56 slots, also when the stored record holds other values.            *)
C15_LegalAnswersOnly ==
    /\ (GetReturned /\ got # Rejected) => AllLegal(got)
    /\ \A d \in DOMAIN gotAll : AllLegal(gotAll[d])
    /\ (lastOp = "save" /\ saveOutcome.localOk) => AllLegal(LocalRecords[lastSaved.date])

(* The same for the reads alone. *)
C15_ReadsReturnLegalAnswers ==
    /\ (GetReturned /\ got # Rejected) => AllLegal(got)
    /\ \A d \in DOMAIN gotAll : AllLegal(gotAll[d])

(* The same for the writes alone. *)
C15_SaveWritesLegalAnswers ==
    (lastOp = "save" /\ saveOutcome.localOk) => AllLegal(LocalRecords[lastSaved.date])

----------------------------------------------------------------------------
(* Claims about the Home page over the store *)

HasScoresAndAnswers(e) == "scores" \in DOMAIN e /\ "detailedScores" \in DOMAIN e

ScoresAreDerived(e) == e.scores = calculateOverallScores(e.detailedScores)

StoredEntries ==
    {LocalRecords[d] : d \in DOMAIN LocalRecords}
        \cup {remoteDocs[d] : d \in DOMAIN remoteDocs}

(* C7: in every reachable state every entry held in memory or in the store *)
(* satisfies scores = calculateOverallScores(detailedScores), also when    *)
(* the stored collection starts with records that have no detailedScores.  *)
C7_ScoresAreCacheOfAnswers ==
    /\ dailyEntry # Null => ScoresAreDerived(dailyEntry)
    /\ \A e \in StoredEntries : HasScoresAndAnswers(e) => ScoresAreDerived(e)

----------------------------------------------------------------------------
(* Claims about the exporter *)

Range(seq) == {seq[i] : i \in 1..Len(seq)}

(* The dates in the date column of the data rows of a sheet. *)
RemoteDatesOf(sh) == Range(DateColumn(sh)) \ BlankCells

LocalDatesOf(data) == {data[i][1] : i \in 1..Len(data)}

DistinctDates(col) ==
    \A i, j \in 1..Len(col) : (col[i] = col[j] /\ col[i] \notin BlankCells) => i = j

ExportReturned == xpc = "done" /\ exportResult # NoExport

ExportSucceeded == ExportReturned /\ exportResult.success

(* The case of C1: the export ran to the end against a table that had the   *)
(* expected header and distinct dates, with local rows of distinct dates    *)
(* that hold one cell per header, as prepareDataForSheetExport builds them. *)
UpsertCase ==
    /\ ExportSucceeded
    /\ HeaderRow(sheet0) = SHEET_HEADERS
    /\ DistinctDates(DateColumn(sheet0))
    /\ DistinctDates([i \in 1..Len(exportData) |-> exportData[i][1]])
    /\ \A i \in 1..Len(exportData) : Len(exportData[i]) = Len(SHEET_HEADERS)

SecondRunOfSameData ==
    /\ ExportSucceeded
    /\ prevExport.called
    /\ prevExport.success
    /\ prevExport.data = exportData

(* C2: the second of two successful exports of the same non-empty local     *)
(* rows reports rowsAppended = 0 and rowsUpdated = 0.                       *)
C2_SecondRunReportsNoRows ==
    (SecondRunOfSameData /\ Len(exportData) > 0) =>
        (exportResult.rowsAppended = 0 /\ exportResult.rowsUpdated = 0)

(* What the code does instead: the second run appends nothing and reports   *)
(* every local row as updated.                                              *)
C2_SecondRunReportsEveryRowUpdated ==
    (SecondRunOfSameData /\ Len(exportData) > 0) =>
        /\ exportResult.rowsAppended = 0
        /\ exportResult.rowsUpdated = Len(exportData)
        /\ exportResult.message = "counts"

HeaderDiffers ==
    /\ Len(HeaderRow(sheet0)) > 0
    /\ HeaderRow(sheet0) # SHEET_HEADERS

(* The failures that return before the header is compared. *)
FailuresBeforeHeaderCheck ==
    {"Server configuration error", "Invalid GOOGLE_PRIVATE_KEY format",
     "Invalid data format", "Failed to authenticate with Google",
     "Permission denied reading headers", "Spreadsheet not found",
     "Error reading from sheet"}

(* C4: when the first row of the table is non-empty and differs from the    *)
(* expected header, the export never gets past the header check: it issues  *)
(* no write call, the table stays as it was, and it returns success = false *)
(* with the header-mismatch error (unless configuration, validation,        *)
(* authentication or the header read itself failed first).                  *)
C4_HeaderMismatchStops ==
    HeaderDiffers =>
        /\ writeCalls = <<>>
        /\ sheet = sheet0
        /\ xpc \in {"readHeader", "done"}
        /\ ExportReturned =>
             /\ ~exportResult.success
             /\ exportResult.error \in {"Header mismatch"} \cup FailuresBeforeHeaderCheck

(* A reordered header over a table with data rows, local rows to send: the  *)
(* export returned the header-mismatch error.                               *)
C4_Witness ==
    /\ HeaderDiffers
    /\ ExportReturned
    /\ HeaderRow(sheet0) = ReorderedHeaders
    /\ Len(sheet0) > 1
    /\ Len(exportData) > 0
    /\ exportResult = ExportFailure("Header mismatch")
    /\ sheet = sheet0

(* The same for the example of the specification, first row Date, Foo. *)
C4_WitnessFoo ==
    /\ HeaderDiffers
    /\ ExportReturned
    /\ HeaderRow(sheet0) = WrongHeaders
    /\ exportResult = ExportFailure("Header mismatch")


----------------------------------------------------------------------------
(* Claims about the analysis button *)

ReturnedByGetAllEntries == {getAllEntries(readOk) : readOk \in {r \in BOOLEAN : remoteConfigured \/ r}}

(* C16: in handleAnalyzeMoods, when the collection returned by             *)
(* getAllEntries has fewer than 3 dates, analyzeMoodPatterns is not called, *)
(* the insufficient-data error is set and isAnalyzing is false again; with  *)
(* 3 or more dates the call is made exactly once.                           *)
C16_InsufficientDataGuard ==
    /\ apc = "getAllEntries" => aiCalls = 0
    /\ apc \in {"analyzeMoodPatterns", "returned"} =>
          /\ allEntries \in ReturnedByGetAllEntries
          /\ IF Cardinality(DOMAIN allEntries) < 3
             THEN aiCalls = 0 /\ analysisError = InsufficientData /\ ~isAnalyzing /\ apc = "returned"
             ELSE aiCalls = 1

C16_Witness ==
    /\ apc = "returned"
    /\ Cardinality(DOMAIN allEntries) = 2
    /\ analysisError = InsufficientData
    /\ aiCalls = 0

C16_WitnessThreeDates ==
    /\ apc = "returned"
    /\ Cardinality(DOMAIN allEntries) = 3
    /\ analysisResult = "insights"
    /\ aiCalls = 1


----------------------------------------------------------------------------
(* Claims about the export into an empty table *)

ExportCalled == xpc # "done" \/ exportResult # NoExport

NoFirstRow == ExportCalled /\ HeaderRow(sheet0) = <<>>

(* the table the export was called on, with the expected header in row 1 *)
Headed(sh) == IF Len(sh) = 0 THEN <<SHEET_HEADERS>> ELSE <<SHEET_HEADERS>> \o Tail(sh)

(* C17: when the header read returns no first row, the export writes the    *)
(* expected header row at A1 and then appends every local row, reporting    *)
(* rowsAppended = number of local rows and rowsUpdated = 0; the only write  *)
(* calls are the header write and then the append, and when the header      *)
(* write fails the table is left as it was.                                 *)
C17_EmptyTable ==
    NoFirstRow =>
        /\ writeCalls \in {<<>>, <<"update">>, <<"update", "append">>}
        /\ writeCalls = <<>> => sheet = sheet0
        /\ ExportSucceeded =>
              /\ sheet = Headed(sheet0) \o exportData
              /\ exportResult.rowsAppended = Len(exportData)
              /\ exportResult.rowsUpdated = 0
        /\ (ExportReturned /\ ~exportResult.success /\ writeCalls = <<"update">>) =>
              sheet = sheet0
        /\ sheet \in {sheet0, Headed(sheet0), Headed(sheet0) \o exportData}

C17_Witness ==
    /\ NoFirstRow
    /\ ExportSucceeded
    /\ Len(sheet0) > 1
    /\ Len(exportData) = 2
    /\ writeCalls = <<"update", "append">>

C17_WitnessHeaderWriteFails ==
    /\ NoFirstRow
    /\ ExportReturned
    /\ exportResult = ExportFailure("Failed to write headers")
    /\ Len(exportData) > 0


----------------------------------------------------------------------------
(* Claims about what an export leaves alone and what it reports *)

(* the data rows of the table the export was called on whose date is not a *)
(* date of the local rows                                                  *)
RowsNotInLocal ==
    {r \in 2..Len(sheet0) : sheet0[r][1] \notin LocalDatesOf(exportData)}

(* C18: every data row of the table whose date does not occur in the local  *)
(* rows is at the same position with the same cells during and after the    *)
(* export, whatever step succeeds or fails.                                 *)
C18_ExistingRowsPreserved ==
    ExportCalled =>
        \A r \in RowsNotInLocal : Len(sheet) >= r /\ sheet[r] = sheet0[r]

C18_Witness ==
    /\ ExportSucceeded
    /\ exportResult.rowsUpdated > 0
    /\ exportResult.rowsAppended > 0
    /\ \E r \in RowsNotInLocal : sheet0[r][1] \notin BlankCells

C18_WitnessAppendFails ==
    /\ ExportReturned
    /\ ~exportResult.success
    /\ writeCalls = <<"batchUpdate", "append">>
    /\ \E r \in RowsNotInLocal : sheet0[r][1] \notin BlankCells

(* the update batch succeeded and the append batch that followed failed *)
UpdatedThenAppendFailed ==
    /\ ExportReturned
    /\ writeCalls = <<"batchUpdate", "append">>
    /\ ~exportResult.success

(* C19: when the update batch succeeds and the append batch that follows    *)
(* fails, the result carries rowsUpdated > 0, the number of rows updated    *)
(* before the failure, and the updates stay in the table.                   *)
C19_PartialSuccessReported ==
    UpdatedThenAppendFailed =>
        /\ "rowsUpdated" \in DOMAIN exportResult
        /\ exportResult.rowsUpdated = rowsUpdatedCount
        /\ exportResult.rowsUpdated > 0
        /\ sheet = SheetWithUpdates(sheet0, rowsToUpdate, Len(rowsToUpdate))

(* What the code does in that case: the updates stay in the table and the  *)
(* result is a failure that carries the error only.                        *)
C19_UpdatesKeptCountsDropped ==
    UpdatedThenAppendFailed =>
        /\ rowsUpdatedCount > 0
        /\ sheet = SheetWithUpdates(sheet0, rowsToUpdate, Len(rowsToUpdate))
        /\ DOMAIN exportResult = {"success", "error"}


----------------------------------------------------------------------------
(* Claims about the validation of the export input *)

WrongColumnCount ==
    \E i \in 1..Len(exportData) : Len(exportData[i]) # Len(SHEET_HEADERS)

RejectedBeforeIO ==
    /\ ExportReturned
    /\ exportResult = ExportFailure("Invalid data format")
    /\ sheet = sheet0
    /\ writeCalls = <<>>

(* C20: an export whose input has a data row with a number of cells other   *)
(* than the number of headers returns the validation error without any      *)
(* authentication or sheet call, and the table is unchanged (the            *)
(* environment of the exporter being configured).                           *)
C20_ValidationBeforeIO ==
    (ExportCalled /\ exportConfig = "ok" /\ WrongColumnCount) => RejectedBeforeIO

(* What the schema does reject before any call: a cell that is neither a   *)
(* string, a number nor null.                                              *)
C20_InvalidCellRejectedBeforeIO ==
    (ExportCalled /\ exportConfig = "ok"
        /\ ~ExportInputSchema([headers |-> SHEET_HEADERS, data |-> exportData]))
    => RejectedBeforeIO

(* The export of a short row runs to the end and the row is in the table. *)
C20_ShortRowNeverWritten ==
    (ExportSucceeded /\ WrongColumnCount) => sheet = sheet0


----------------------------------------------------------------------------
(* Claims about the failure categories of the export *)

PermissionDeniedErrors ==
    {"Permission denied reading headers", "Permission denied writing headers",
     "Permission denied reading date values", "Permission denied appending data"}

NotFoundErrors == {"Spreadsheet not found"}

(* the export returned because its last Sheets call failed with the code *)
FailedWith(code) == ExportReturned /\ lastCall.outcome = code

(* C21: at every step of the export (header read, header write, date-column *)
(* read, batch update, append) a call that fails with 403 yields a          *)
(* permission-denied result and a call that fails with 404 a not-found      *)
(* result, neither being the header-mismatch nor a generic failure result.  *)
C21_FailureCategories ==
    /\ FailedWith("e403") =>
          (~exportResult.success /\ exportResult.error \in PermissionDeniedErrors)
    /\ FailedWith("e404") =>
          (~exportResult.success /\ exportResult.error \in NotFoundErrors)

(* The steps at which the code tells the category: 403 at every step but   *)
(* the batch update, 404 at the header read only.                          *)
C21_CategoriesWhereHandled ==
    /\ (FailedWith("e403") /\ lastCall.step # "batchUpdate") =>
          (~exportResult.success /\ exportResult.error \in PermissionDeniedErrors)
    /\ (FailedWith("e404") /\ lastCall.step = "readHeader") =>
          (~exportResult.success /\ exportResult.error \in NotFoundErrors)
    /\ (FailedWith("e403") /\ lastCall.step = "batchUpdate") =>
          exportResult = ExportFailure("Failed to update rows")
    /\ (FailedWith("e404") /\ lastCall.step # "readHeader") =>
          exportResult.error \in {"Failed to write headers", "Failed to read existing date values",
                                  "Failed to update rows", "Failed to append new data"}

(* A 403 of the batch update is never reported as permission denied. *)
C21_BatchUpdate403IsPermissionDenied ==
    (FailedWith("e403") /\ lastCall.step = "batchUpdate") =>
        exportResult.error \in PermissionDeniedErrors


----------------------------------------------------------------------------
(* Claims about the backend selection of getAllEntries *)

(* getAllEntries returned, its read of the remote store having succeeded *)
GetAllReturned == lastOp = "getAll" /\ gotAll = getAllEntries(TRUE)

(* getDailyEntry(date) finds a stored record, remote or local *)
ReadsStoredRecord(date) ==
    \/ remoteConfigured /\ date \in DOMAIN remoteDocs
    \/ date \in DOMAIN LocalRecords

(* C22: whatever the two backends hold, every date for which getDailyEntry  *)
(* returns an entry from a stored record is in the result of getAllEntries  *)
(* with that same entry; when the remote store is configured and has no     *)
(* document for the date while the local collection does, both fall back to *)
(* the local record.                                                        *)
C22_SameBackendSelection ==
    GetAllReturned =>
        \A d \in Dates :
            ReadsStoredRecord(d) =>
                (d \in DOMAIN gotAll /\ gotAll[d] = getDailyEntry(d, TRUE))

(* The inclusion that does hold: every entry of getAllEntries is the entry  *)
(* getDailyEntry returns for its date.                                      *)
C22_AllEntriesAreDailyEntries ==
    GetAllReturned => \A d \in DOMAIN gotAll : gotAll[d] = getDailyEntry(d, TRUE)

(* With the remote store configured getAllEntries returns the remote      *)
(* documents only.                                                         *)
C22_RemoteOnlyWhenConfigured ==
    (GetAllReturned /\ remoteConfigured) => DOMAIN gotAll = DOMAIN remoteDocs


----------------------------------------------------------------------------
(* Claims about the edit of one answer on the Home page *)

(* a step of handleQuestionScoreChange: a user event that keeps the date *)
AnswerEdited == homeSteps' = homeSteps + 1 /\ selectedDate' = selectedDate

OneSlotSet(before, after) ==
    \E theme \in Themes, i \in Slots, v \in LegalAnswers :
        /\ after[theme][i] = Num(v)
        /\ \A t \in Themes : \A k \in Slots :
              (t # theme \/ k # i) => after[t][k] = before[t][k]
        /\ DOMAIN after = DOMAIN before
        /\ \A t \in Themes : DOMAIN after[t] = DOMAIN before[t]

(* C24: handleQuestionScoreChange(theme, i, v) on a loaded entry sets slot   *)
(* (theme, i) to v and leaves the other 55 slots, the date and the mood      *)
(* label as they were; scores become calculateOverallScores of the new       *)
(* detailedScores and the displayed mood calculateMoodFromOverallScores of   *)
(* those scores; with no entry loaded the updater returns null.              *)
C24_SingleAnswerEdit ==
    /\ [](\A theme \in EditedThemes, i \in EditedSlots, v \in LegalAnswers :
             handleQuestionScoreChange(Null, theme, i, v) = Null)
    /\ [][AnswerEdited =>
            /\ dailyEntry # Null
            /\ dailyEntry' # Null
            /\ OneSlotSet(dailyEntry.detailedScores, dailyEntry'.detailedScores)
            /\ dailyEntry'.date = dailyEntry.date
            /\ dailyEntry'.mood = dailyEntry.mood
            /\ dailyEntry'.scores = calculateOverallScores(dailyEntry'.detailedScores)
            /\ calculatedMood' = calculateMoodFromOverallScores(dailyEntry'.scores)]_vars

(* an answer was edited on an entry that was loaded with totals that were  *)
(* not those of its answers                                                *)
C24_Witness ==
    /\ homeSteps > 0
    /\ dailyEntry # Null
    /\ dailyEntry.detailedScores["dreaming"][0] = Num(Positive)
    /\ dailyEntry.detailedScores["diet"][2] = Num(Negative)
    /\ dailyEntry.scores = calculateOverallScores(dailyEntry.detailedScores)
    /\ calculatedMood = calculateMoodFromOverallScores(dailyEntry.scores)


----------------------------------------------------------------------------
(* Claims about the order of the write calls of an export *)

Occurrences(seq, x) == Cardinality({i \in 1..Len(seq) : seq[i] = x})

Position(seq, x) == CHOOSE i \in 1..Len(seq) : seq[i] = x

BatchUpdateFailed == lastCall.step = "batchUpdate" /\ lastCall.outcome # "ok"

(* C23: in every execution of the export values.batchUpdate is called at    *)
(* most once and values.append at most once; when there are rows to update  *)
(* the batch update is issued before the append; and after a failed batch   *)
(* update the execution issues no further write call.                       *)
C23_BatchOrder ==
    /\ [](/\ Occurrences(writeCalls, "batchUpdate") <= 1
          /\ Occurrences(writeCalls, "append") <= 1
          /\ (Occurrences(writeCalls, "append") = 1 /\ Len(rowsToUpdate) > 0) =>
                /\ Occurrences(writeCalls, "batchUpdate") = 1
                /\ Position(writeCalls, "batchUpdate") < Position(writeCalls, "append")
          /\ BatchUpdateFailed =>
                (ExportReturned /\ ~exportResult.success
                   /\ Occurrences(writeCalls, "append") = 0))
    /\ [][BatchUpdateFailed => (writeCalls' = writeCalls \/ writeCalls' = <<>>)]_vars

C23_Witness ==
    /\ ExportSucceeded
    /\ writeCalls = <<"batchUpdate", "append">>
    /\ Len(rowsToUpdate) > 0
    /\ Len(rowsToAppend) > 0

C23_WitnessBatchFails ==
    /\ BatchUpdateFailed
    /\ Len(rowsToAppend) > 0
    /\ writeCalls = <<"batchUpdate">>


----------------------------------------------------------------------------
(* Claims about what the Home page writes and shows *)

(* C25: every change of an answer made through handleQuestionScoreChange is *)
(* pushed to the store: in the step of the change and of the save effect    *)
(* that follows it saveDailyEntry is called with the changed entry,         *)
(* whatever date selections and load completions came before.               *)
C25_WriteThrough ==
    [][AnswerEdited => (lastOp' = "save" /\ lastSaved' = dailyEntry')]_vars

(* The changes that are written through: those made while the entry in     *)
(* memory is the entry of the selected date.                               *)
C25_WriteThroughOnSelectedDate ==
    [][(AnswerEdited /\ dailyEntry.date = selectedDate) =>
          (lastOp' = "save" /\ lastSaved' = dailyEntry')]_vars

(* C29: whatever dates are selected and in whatever order the pending       *)
(* getDailyEntry promises settle, once no load is pending the entry in      *)
(* memory has the selected date, and an entry is only ever saved under its  *)
(* own date and shown under the selected date.                              *)
C29_NoStaleLoads ==
    /\ (pendingLoads = {} /\ dailyEntry # Null) => dailyEntry.date = selectedDate
    /\ (FormShown /\ pendingLoads = {}) => dailyEntry.date = selectedDate
    /\ \A d \in DOMAIN LocalRecords :
          "date" \in DOMAIN LocalRecords[d] => LocalRecords[d].date = d

(* No entry is saved under another date than its own. *)
C29_SavedUnderOwnDate ==
    /\ \A d \in DOMAIN LocalRecords :
          "date" \in DOMAIN LocalRecords[d] => LocalRecords[d].date = d
    /\ \A d \in DOMAIN remoteDocs :
          "date" \in DOMAIN remoteDocs[d] => remoteDocs[d].date = d
    /\ lastOp = "save" => lastSaved.date \in Dates


(* What holds of the loads: an entry in memory that is not of the selected *)
(* date is there only after a load was rejected, which takes the local     *)
(* item to be the JSON text null.                                          *)
C29_StaleOnlyAfterRejectedLoad ==
    (pendingLoads = {} /\ dailyEntry # Null /\ dailyEntry.date # selectedDate)
        => localBlob.kind = "null"


----------------------------------------------------------------------------
(* Claims about what a save leaves alone *)

(* a step of saveDailyEntry called on the store *)
SaveCalled == storeOps' = storeOps + 1 /\ lastOp' = "save"

(* the records of before are all there after, and those of the dates other *)
(* than the saved one read the same after schema completion                *)
OtherDaysKept(before, after, savedDate) ==
    \A d \in DOMAIN before :
        /\ d \in DOMAIN after
        /\ d # savedDate =>
              \/ after[d] = before[d]
              \/ validateAndCompleteEntry(after[d], d) = validateAndCompleteEntry(before[d], d)

(* C28: for every stored collection that can be read and every entry e,     *)
(* saveDailyEntry(e) leaves the record of every other date present, with    *)
(* the same answers, scores and mood after schema completion; no operation  *)
(* of the store removes a date from a collection; and a write that fails    *)
(* leaves the collection it was to change as it was.                        *)
C28_SaveKeepsOtherDays ==
    /\ [][SaveCalled =>
            /\ localBlob.kind = "data" =>
                  (localBlob'.kind = "data"
                     /\ OtherDaysKept(localBlob.data, localBlob'.data, lastSaved'.date))
            /\ OtherDaysKept(remoteDocs, remoteDocs', lastSaved'.date)
            /\ ~saveOutcome'.localOk => localBlob' = localBlob
            /\ ~saveOutcome'.remoteOk => remoteDocs' = remoteDocs]_vars
    /\ [][/\ DOMAIN LocalRecords \subseteq DOMAIN LocalRecords'
          /\ DOMAIN remoteDocs \subseteq DOMAIN remoteDocs']_vars

(* a save of the first date into collections that hold the second date *)
C28_Witness ==
    /\ lastOp = "save"
    /\ lastSaved.date = FirstDate
    /\ saveOutcome.localOk
    /\ saveOutcome.remoteOk
    /\ "2024-01-02" \in DOMAIN LocalRecords
    /\ "2024-01-02" \in DOMAIN remoteDocs
    /\ LocalRecords[FirstDate] = validateAndCompleteEntry(lastSaved, FirstDate)

C28_WitnessFailedSave ==
    /\ lastOp = "save"
    /\ ~saveOutcome.localOk
    /\ ~saveOutcome.threw
    /\ "2024-01-02" \in DOMAIN LocalRecords


----------------------------------------------------------------------------
(* Claims about the export and analysis payloads *)

(* the total the entry of that date holds for the theme, 0 where it holds none *)
TotalIn(entries, date, themeKey) ==
    LET e == CHOOSE x \in Range(entries) : x.date = date
    IN IF "scores" \in DOMAIN e /\ themeKey \in DOMAIN e.scores /\ IsNum(e.scores[themeKey])
       THEN e.scores[themeKey].v ELSE 0

(* one item per entry, by date ascending *)
OnePerEntryAscending(entries, dates) ==
    /\ Len(dates) = Len(entries)
    /\ Range(dates) = {entries[i].date : i \in 1..Len(entries)}
    /\ \A i, j \in 1..Len(dates) : i < j => localeCompare(dates[i], dates[j]) < 0

(* C27: prepareDataForSheetExport and prepareDataForAnalysis produce one   *)
(* row or object per entry, ordered by date ascending; each export row is  *)
(* the date followed by the total of each theme in themeOrder, 0 standing  *)
(* for a missing total, so every row is as long as SHEET_HEADERS.          *)
C27_Payloads ==
    /\ fnName = "prepareDataForSheetExport" =>
          /\ OnePerEntryAscending(fnArg.entries, [i \in 1..Len(fnRet) |-> fnRet[i][1]])
          /\ \A i \in 1..Len(fnRet) :
                /\ Len(fnRet[i]) = Len(SHEET_HEADERS)
                /\ \A k \in 1..Len(themeOrder) :
                      fnRet[i][k + 1] = TotalIn(fnArg.entries, fnRet[i][1], themeOrder[k])
    /\ fnName = "prepareDataForAnalysis" =>
          LET moodData == fnRet.moodData.json
              themeScores == fnRet.themeScores.json
          IN /\ OnePerEntryAscending(fnArg.entries,
                                     [i \in 1..Len(moodData) |-> moodData[i].date])
             /\ OnePerEntryAscending(fnArg.entries,
                                     [i \in 1..Len(themeScores) |-> themeScores[i].date])
             /\ \A i \in 1..Len(themeScores) : \A t \in Themes :
                   themeScores[i][t] = TotalIn(fnArg.entries, themeScores[i].date, t)

(* three entries inserted latest first, one of them without scores *)
C27_Witness ==
    /\ fnName = "prepareDataForSheetExport"
    /\ Len(fnArg.entries) = 3
    /\ fnArg.entries[1].date = "2024-01-03"
    /\ fnArg.entries[3].date = "2024-01-01"
    /\ "scores" \notin DOMAIN fnArg.entries[2]
    /\ fnRet[1][1] = "2024-01-01"
    /\ fnRet[3][2] = Positive

C27_WitnessAnalysis ==
    /\ fnName = "prepareDataForAnalysis"
    /\ Len(fnArg.entries) = 2
    /\ fnArg.entries[1].date = "2024-01-02"
    /\ fnArg.entries[2].date = "2024-01-01"
    /\ fnRet.moodData.json[1].mood = "not specified"


----------------------------------------------------------------------------
(* Claims about remote tables that hold a date in more than one row *)

(* the export ran to the end against a table with the expected header, for *)
(* local rows of distinct dates that hold one cell per header              *)
HeaderMatchedCase ==
    /\ ExportSucceeded
    /\ HeaderRow(sheet0) = SHEET_HEADERS
    /\ DistinctDates([i \in 1..Len(exportData) |-> exportData[i][1]])
    /\ \A i \in 1..Len(exportData) : Len(exportData[i]) = Len(SHEET_HEADERS)

(* the local row of the date *)
LocalRowOf(date) == exportData[CHOOSE i \in 1..Len(exportData) : exportData[i][1] = date]

(* C30: after a successful export against a table whose header matches,   *)
(* every data row of the table whose date occurs in the local collection   *)
(* holds the local values of that date, also when the date column holds    *)
(* the date in more than one row, and no local date is both updated and    *)
(* appended in the run.                                                    *)
C30_DuplicateRemoteDates ==
    HeaderMatchedCase =>
        /\ \A r \in 2..Len(sheet) :
              sheet[r][1] \in LocalDatesOf(exportData) => sheet[r] = LocalRowOf(sheet[r][1])
        /\ \A u \in 1..Len(rowsToUpdate), a \in 1..Len(rowsToAppend) :
              rowsToUpdate[u].values[1] # rowsToAppend[a][1]

(* What holds instead: of the rows of the table that hold a local date the *)
(* last one holds the local values and the earlier ones are as they were.  *)
C30_LastRowOfDateUpdated ==
    HeaderMatchedCase =>
        \A r \in 2..Len(sheet0) :
            sheet0[r][1] \in LocalDatesOf(exportData) =>
                IF \E q \in (r + 1)..Len(sheet0) : sheet0[q][1] = sheet0[r][1]
                THEN sheet[r] = sheet0[r]
                ELSE sheet[r] = LocalRowOf(sheet0[r][1])

(* No local date is both updated and appended in a run. *)
C30_NoDateUpdatedAndAppended ==
    \A u \in 1..Len(rowsToUpdate), a \in 1..Len(rowsToAppend) :
        rowsToUpdate[u].values[1] # rowsToAppend[a][1]


----------------------------------------------------------------------------
(* Claims about the report of a run that changed nothing *)

AlreadyCurrent == "Dane z aplikacji sa juz aktualne w arkuszu."
NoChanges == "Nie wprowadzono zadnych zmian w arkuszu."

(* a run with non-empty local data that ended with both counts 0 *)
NothingReported ==
    /\ fnName = "exportSummary"
    /\ Len(fnArg.data) > 0
    /\ fnRet.rowsUpdated = 0
    /\ fnRet.rowsAppended = 0

(* C26: an export run with non-empty local data that ends with             *)
(* rowsUpdated = 0 and rowsAppended = 0 returns the message that the data  *)
(* is already current, not the generic message that nothing was changed.   *)
C26_AlreadyCurrentReport ==
    NothingReported => fnRet.message = AlreadyCurrent

(* What holds instead: such a run returns the generic message, and it is   *)
(* one whose batchUpdate response carried no totalUpdatedRows.             *)
C26_NothingReportedIsGeneric ==
    NothingReported =>
        /\ fnRet.message = NoChanges
        /\ Len(fnArg.rowsToUpdate) > 0
        /\ Len(fnArg.rowsToAppend) = 0
        /\ fnArg.totalUpdatedRows = Undefined

(* No run with non-empty local data returns the already-current message:   *)
(* every local row is in rowsToUpdate or in rowsToAppend.                  *)
C26_AlreadyCurrentNeverReturned ==
    /\ (fnName = "exportSummary" /\ Len(fnArg.data) > 0) => fnRet.message # AlreadyCurrent
    /\ (ExportSucceeded /\ Len(exportData) > 0) => exportResult.message # AlreadyCurrent

====
